---- MODULE Spec2Model ----
(***************************************************************************)
(* A model of the plastic-io graph scheduling engine: Scheduler.url, the   *)
(* edge executor (Edge.execute), the vector executor (Vector.execute with  *)
(* its edge setter), and the artifact Loader.                              *)
(*                                                                         *)
(* Every async function activation is a frame.  The synchronous part of a  *)
(* frame runs to completion (the variable stack is the JavaScript call     *)
(* stack); an await is a suspension point, and suspended frames resume in  *)
(* the order in which their awaited promises settled (the microtask        *)
(* queue).  The host delivers a fetch response or a timer when no job is   *)
(* running and the microtask queue is empty; the embedding program calls   *)
(* url() or clearCache() whenever no job is running.  Event listeners are  *)
(* the embedding program's: one that only listens, two that call          *)
(* setContext on a set event, one that calls setValue on a load event.     *)
(***************************************************************************)
EXTENDS Integers, Sequences, FiniteSets, TLC

VARIABLES
    frames,       \* frame id -> activation record of an async function
    stack,        \* call stack of the running synchronous job, top first
    queue,        \* microtask queue: suspended frames ready to resume
    log,          \* chain root frame id -> events dispatched by that chain
    heap,         \* object reference -> mutable fields of a Vector object
    cache,        \* loader -> (url -> cached artifact reference)
    fetchCount,   \* url -> number of times the host fetch was invoked
    sinceClear,   \* url -> fetch invocations since its loader was last cleared
    gens,         \* artifact -> number of objects parsed from responses
    vectorCache,  \* scheduler.vectorCache: vector id -> its cache object
    graph,        \* scheduler.graph: the base graph reference
    fetchDefined, \* typeof fetch !== "undefined"
    served,       \* the artifacts the host has; for others json() is null
    result,       \* url() call -> how its promise settled ("ok" or "err")
    unhandled,    \* setters whose promise rejected (nothing awaits them)
    ops,          \* the calls of the embedding program and their settlements
    nCalls,       \* number of url() calls made so far
    nClears,      \* number of clearCache() calls made so far
    events,       \* scheduler.events: event name -> listeners, as registered
    nListens,     \* number of addEventListener calls made so far
    nRemoves,     \* number of removeEventListener calls made so far
    listened,     \* (event name, listener) -> the add and remove calls made
    dispatching,  \* the dispatchEvent call the embedding program has made
    overlap       \* the embedding program makes calls during a traversal

vars == <<frames, stack, queue, log, heap, cache, fetchCount, sinceClear, gens,
          vectorCache, graph, fetchDefined, served, result, unhandled, ops,
          nCalls, nClears, events, nListens, nRemoves, listened, dispatching,
          overlap>>

(***************************************************************************)
(* Bounds of the exploration.                                              *)
(***************************************************************************)
MaxCalls == 2
MaxClears == 1
MaxListens == 2
MaxRemoves == 1

Null == <<>>

(***************************************************************************)
(* The artifacts: a base graph g0, a linked graph g1, a published vector   *)
(* pv, and an empty graph ge; a base graph gn whose vectors O1 and O2 are  *)
(* both linked to the graph g2, which holds a vector H2 that is linked to  *)
(* g1 in turn, and is written to on a field that its linked graph does    *)
(* not map; O1 has a handler of its own, and so has M, a vector of gn that *)
(* is linked to pv.  Strings that are matched by a regular expression      *)
(* (vector urls) are sequences of characters.                              *)
(***************************************************************************)
NoLinkedVector == [has |-> FALSE, id |-> "", version |-> 0]

NoLinkedGraph ==
    [has |-> FALSE, id |-> "", version |-> 0, inputs |-> <<>>,
     outputs |-> <<>>, data |-> <<>>, properties |-> <<>>]

Connectors ==
    [c1 |-> [id |-> "c1", vectorId |-> "B", field |-> "in", graphId |-> "g0", version |-> 0],
     c2 |-> [id |-> "c2", vectorId |-> "Z", field |-> "in", graphId |-> "g0", version |-> 0],
     c3 |-> [id |-> "c3", vectorId |-> "C", field |-> "in", graphId |-> "g0", version |-> 0],
     c5 |-> [id |-> "c5", vectorId |-> "B", field |-> "in", graphId |-> "g0", version |-> 0],
     c6 |-> [id |-> "c6", vectorId |-> "Q", field |-> "in", graphId |-> "g1", version |-> 0],
     c7 |-> [id |-> "c7", vectorId |-> "H2", field |-> "aux", graphId |-> "g2", version |-> 0],
     c8 |-> [id |-> "c8", vectorId |-> "K", field |-> "in", graphId |-> "gn", version |-> 0],
     c9 |-> [id |-> "c9", vectorId |-> "K", field |-> "in", graphId |-> "gn", version |-> 0]]

VectorDefs ==
    [K |-> [id |-> "K", url |-> <<"k">>, set |-> "console.info(value);",
            edges |-> <<>>, data |-> "dK", properties |-> "pK",
            linkedVector |-> NoLinkedVector, linkedGraph |-> NoLinkedGraph],
     A |-> [id |-> "A", url |-> <<"a">>, set |-> "edges.out = value;",
            edges |-> <<[field |-> "out", connectors |-> <<"c1", "c2", "c3">>]>>,
            data |-> "dA", properties |-> "pA",
            linkedVector |-> NoLinkedVector, linkedGraph |-> NoLinkedGraph],
     B |-> [id |-> "B", url |-> <<>>, set |-> "await timer; console.info(value);",
            edges |-> <<>>, data |-> "dB", properties |-> "pB",
            linkedVector |-> NoLinkedVector, linkedGraph |-> NoLinkedGraph],
     C |-> [id |-> "C", url |-> <<"t">>, set |-> "x;",
            edges |-> <<>>, data |-> "dC", properties |-> "pC",
            linkedVector |-> NoLinkedVector, linkedGraph |-> NoLinkedGraph],
     D |-> [id |-> "D", url |-> <<"d">>, set |-> "await timer; x;",
            edges |-> <<>>, data |-> "dD", properties |-> "pD",
            linkedVector |-> NoLinkedVector, linkedGraph |-> NoLinkedGraph],
     L |-> [id |-> "L", url |-> <<"l", "v">>, set |-> "",
            edges |-> <<>>, data |-> "dL", properties |-> "pL",
            linkedVector |-> [has |-> TRUE, id |-> "pv", version |-> 0],
            linkedGraph |-> NoLinkedGraph],
     H |-> [id |-> "H", url |-> <<"l", "g">>, set |-> "",
            edges |-> <<[field |-> "out", connectors |-> <<"c5">>]>>,
            data |-> "dH", properties |-> "pH",
            linkedVector |-> NoLinkedVector,
            linkedGraph |-> [has |-> TRUE, id |-> "g1", version |-> 0,
                             inputs |-> <<[key |-> "in", id |-> "P", field |-> "pin"]>>,
                             outputs |-> <<[key |-> "out", id |-> "P", field |-> "out"]>>,
                             data |-> <<[id |-> "P", val |-> "TEST"]>>,
                             properties |-> <<[id |-> "Q", val |-> "PROP"]>>]],
     P |-> [id |-> "P", url |-> <<>>, set |-> "edges.out = value;",
            edges |-> <<[field |-> "out", connectors |-> <<"c6">>],
                        [field |-> "aux", connectors |-> <<>>]>>,
            data |-> "dP", properties |-> "pP",
            linkedVector |-> NoLinkedVector, linkedGraph |-> NoLinkedGraph],
     Q |-> [id |-> "Q", url |-> <<>>, set |-> "console.info(value);",
            edges |-> <<>>, data |-> "dQ", properties |-> "pQ",
            linkedVector |-> NoLinkedVector, linkedGraph |-> NoLinkedGraph],
     pv |-> [id |-> "pv", url |-> <<>>, set |-> "console.info(value);",
             edges |-> <<>>, data |-> "dpv", properties |-> "ppv",
             linkedVector |-> NoLinkedVector, linkedGraph |-> NoLinkedGraph],
     O1 |-> [id |-> "O1", url |-> <<"a">>, set |-> "console.info(value);",
             edges |-> <<[field |-> "out", connectors |-> <<"c8">>]>>,
             data |-> "dO1", properties |-> "pO1",
             linkedVector |-> NoLinkedVector,
             linkedGraph |-> [has |-> TRUE, id |-> "g2", version |-> 0,
                              inputs |-> <<[key |-> "in", id |-> "P2", field |-> "in"]>>,
                              outputs |-> <<[key |-> "out", id |-> "H2", field |-> "out"]>>,
                              data |-> <<>>, properties |-> <<>>]],
     O2 |-> [id |-> "O2", url |-> <<"d">>, set |-> "",
             edges |-> <<[field |-> "out", connectors |-> <<"c9">>]>>,
             data |-> "dO2", properties |-> "pO2",
             linkedVector |-> NoLinkedVector,
             linkedGraph |-> [has |-> TRUE, id |-> "g2", version |-> 0,
                              inputs |-> <<[key |-> "in", id |-> "P2", field |-> "in"]>>,
                              outputs |-> <<[key |-> "out", id |-> "H2", field |-> "out"]>>,
                              data |-> <<>>, properties |-> <<>>]],
     M |-> [id |-> "M", url |-> <<"n">>, set |-> "console.info(value);",
            edges |-> <<>>, data |-> "dM", properties |-> "pM",
            linkedVector |-> [has |-> TRUE, id |-> "pv", version |-> 0],
            linkedGraph |-> NoLinkedGraph],
     P2 |-> [id |-> "P2", url |-> <<>>, set |-> "edges.out = value;",
             edges |-> <<[field |-> "out", connectors |-> <<"c7">>]>>,
             data |-> "dP2", properties |-> "pP2",
             linkedVector |-> NoLinkedVector, linkedGraph |-> NoLinkedGraph],
     H2 |-> [id |-> "H2", url |-> <<>>, set |-> "",
             edges |-> <<[field |-> "out", connectors |-> <<>>]>>,
             data |-> "dH2", properties |-> "pH2",
             linkedVector |-> NoLinkedVector,
             linkedGraph |-> [has |-> TRUE, id |-> "g1", version |-> 0,
                              inputs |-> <<[key |-> "in", id |-> "P", field |-> "pin"]>>,
                              outputs |-> <<[key |-> "out", id |-> "P", field |-> "out"]>>,
                              data |-> <<>>, properties |-> <<>>]]]

\* Graph artifacts (and the published vector, as a container of itself).
Artifacts ==
    [g0 |-> [id |-> "g0", version |-> 0, vectors |-> <<"K", "A", "B", "C", "L", "H", "D">>],
     g1 |-> [id |-> "g1", version |-> 0, vectors |-> <<"P", "Q">>],
     ge |-> [id |-> "ge", version |-> 0, vectors |-> <<>>],
     pv |-> [id |-> "pv", version |-> 0, vectors |-> <<"pv">>],
     gn |-> [id |-> "gn", version |-> 0, vectors |-> <<"O1", "O2", "K", "M", "L">>],
     g2 |-> [id |-> "g2", version |-> 0, vectors |-> <<"P2", "H2">>]]

Range(s) == {s[i] : i \in 1..Len(s)}


(***************************************************************************)
(* Object references.  A graph object is <<artifact, generation>> and a    *)
(* vector object is <<artifact, generation, vector id>>: generation 0 is   *)
(* the object handed to the constructor, generation n the object parsed    *)
(* from the n-th response for that artifact.                               *)
(***************************************************************************)
GraphId(g) == Artifacts[g[1]].id

GraphVersion(g) == Artifacts[g[1]].version

VectorIds(g) == Artifacts[g[1]].vectors

Def(v) == VectorDefs[v[3]]

GraphOf(v) == <<v[1], v[2]>>

\* The fields of a Vector object as parsed from its artifact.
Pristine(vid) ==
    [edges |-> VectorDefs[vid].edges,
     data |-> VectorDefs[vid].data,
     properties |-> VectorDefs[vid].properties,
     lvLoaded |-> FALSE, lvVector |-> Null,
     lgLoaded |-> FALSE, lgGraph |-> Null]

\* JSON-parse an artifact into fresh objects.
Parse(art, gen) ==
    [r \in {<<art, gen, Artifacts[art].vectors[i]>> : i \in 1..Len(Artifacts[art].vectors)}
        |-> Pristine(r[3])]

\* graph.vectors.find((v) => v.id === id)
FindById(g, id) ==
    IF \E i \in 1..Len(VectorIds(g)) : VectorIds(g)[i] = id
    THEN <<g[1], g[2], id>>
    ELSE Null

\* new RegExp(p).test(u) for a literal pattern: p occurs in u.
RegExpTest(p, u) ==
    \E i \in 0..(Len(u) - Len(p)) : SubSeq(u, i + 1, i + Len(p)) = p

\* graph.vectors.find((vec) => pattern.test(vec.url))
FindByUrl(g, p) ==
    LET hits == {i \in 1..Len(VectorIds(g)) : RegExpTest(p, VectorDefs[VectorIds(g)[i]].url)}
    IN IF hits = {} THEN Null
       ELSE <<g[1], g[2], VectorIds(g)[CHOOSE i \in hits : \A j \in hits : i <= j]>>

(***************************************************************************)
(* URL templating (Scheduler.getGraphPath / getVectorPath).                *)
(***************************************************************************)
graphPath == <<"artifacts/graph/", "{id}", ".", "{version}">>

vectorPath == <<"artifacts/vectors/", "{id}", ".", "{version}">>

\* String.prototype.replace(token, by): the first occurrence only.
Replace(s, token, by) ==
    LET at == {i \in 1..Len(s) : s[i] = token}
    IN IF at = {} THEN s
       ELSE [i \in 1..Len(s) |->
                IF i = (CHOOSE k \in at : \A j \in at : k <= j) THEN by ELSE s[i]]

\* Number.prototype.toString() for the versions in use.
NumToString(n) == IF n = 0 THEN "0" ELSE IF n = 1 THEN "1" ELSE "n"

getVectorPath(id, version) ==
    Replace(Replace(vectorPath, "{id}", id), "{version}", NumToString(version))

getGraphPath(id, version) ==
    Replace(Replace(graphPath, "{id}", id), "{version}", NumToString(version))

GraphNames == {"g0", "g1", "ge", "gn", "g2"}

ArtifactNames == GraphNames \cup {"pv"}

Urls ==
    {getGraphPath(Artifacts[a].id, Artifacts[a].version) : a \in GraphNames}
        \cup {getVectorPath("pv", 0)}

\* The loader a URL is asked of: vectorLoader or graphLoader.
LoaderOf(url) == IF url = getVectorPath("pv", 0) THEN "vector" ELSE "graph"

\* What the host serves at a URL.
Hosted(url) ==
    IF url = getVectorPath("pv", 0) THEN "pv"
    ELSE CHOOSE a \in GraphNames :
            url = getGraphPath(Artifacts[a].id, Artifacts[a].version)

(***************************************************************************)
(* Handlers.  template.set is source text; Compile gives the steps the     *)
(* compiled function takes: a write to an output edge, an await of a host  *)
(* timer, or a throw.                                                      *)
(***************************************************************************)
Compile(set) ==
    CASE set = "edges.out = value;" -> <<[op |-> "write", field |-> "out"]>>
      [] set = "console.info(value);" -> <<[op |-> "info", field |-> ""]>>
      [] set = "await timer; console.info(value);" ->
            <<[op |-> "await", field |-> ""], [op |-> "info", field |-> ""]>>
      [] set = "x;" -> <<[op |-> "throw", field |-> ""]>>
      [] set = "await timer; x;" ->
            <<[op |-> "await", field |-> ""], [op |-> "throw", field |-> ""]>>
      [] OTHER -> <<>>

(***************************************************************************)
(* Frames and events.                                                      *)
(***************************************************************************)
Frame0 ==
    [kind |-> "", pc |-> "", st |-> "run", wait |-> Null, ret |-> Null,
     err |-> "", graph |-> Null, vector |-> Null, vect |-> Null,
     field |-> "", value |-> 0, url |-> <<>>, loader |-> "", idx |-> 0,
     edge |-> "", own |-> Null, chain |-> Null, born |-> 0, cache |-> 0,
     data |-> "", properties |-> ""]

\* An event as dispatched: its name, the activation that dispatched it and
\* the fields of its payload (url is the payload's url; context is
\* vectorInterface.context, which the payload of set refers to), with arg,
\* the argument of the load() call that dispatched it, heard, the
\* listeners that were invoked with it, in order, and cache, state, data
\* and properties, what vectorInterface.cache, .state, .data and
\* .properties of the payload of afterSet refer to, and receiver, the
\* object the listeners were called on.
Event0 ==
    [name |-> "", fr |-> Null, obj |-> Null, vectorId |-> "", graphId |-> "",
     field |-> "", value |-> 0, connector |-> "", url |-> <<>>, message |-> "",
     err |-> "", context |-> Null, arg |-> <<>>, heard |-> <<>>,
     cache |-> 0, state |-> Null, data |-> "", properties |-> "",
     receiver |-> Null]

\* A suspended frame whose awaited promise has settled.
Ready(fs, f) ==
    /\ fs[f].st = "wait"
    /\ fs[f].wait \in DOMAIN fs
    /\ fs[fs[f].wait].st \in {"ok", "err"}

\* f is the frame that runs next: the top of the call stack, or, when the
\* stack is empty, the first continuation of the microtask queue.
Cur(f) == IF stack # <<>> THEN Head(stack) = f
          ELSE queue # <<>> /\ Head(queue) = f

RECURSIVE SetToSeq(_)
SetToSeq(S) ==
    IF S = {} THEN <<>>
    ELSE LET x == CHOOSE y \in S : TRUE IN <<x>> \o SetToSeq(S \ {x})

\* The microtask queue after a step: the continuations that are still
\* waiting to resume, then those whose awaited promise has just settled.
Enqueue(q, fs) ==
    LET keep == SelectSeq(q, LAMBDA f : f \in DOMAIN fs /\ Ready(fs, f))
        new == {f \in DOMAIN fs : Ready(fs, f)} \ {keep[i] : i \in 1..Len(keep)}
    IN keep \o SetToSeq(new)

Base == IF stack = <<>> THEN <<>> ELSE Tail(stack)

\* The listeners a scheduler may be given: one that only listens, two that
\* call setContext, one that calls setValue.
Listeners == {"rec", "ctxA", "ctxB", "sv"}

\* Listeners that call back into the scheduler when they are invoked: one
\* removes itself, one removes the listener rec, one adds the listener
\* late; rec and late only listen.
MutatingListeners == {"rmSelf", "rmRec", "addLate"}

\* The listener of load of the documented pattern: an async function that
\* awaits a lookup in a store and then calls setValue with what it got.
AsyncListeners == {"asv"}

\* this.events[eventName], or no listeners when there is no such entry.
Registered(name) == IF name \in DOMAIN events THEN events[name] ELSE <<>>

\* The Scheduler object.
SchedulerObject == "scheduler"

\* dispatchEvent that calls the listeners of the name last to first.
DispatchedReversed(ev) ==
    LET ls == Registered(ev.name)
    IN [ev EXCEPT !.heard = [i \in 1..Len(ls) |-> ls[Len(ls) + 1 - i]],
                  !.receiver = IF ls = <<>> THEN Null ELSE SchedulerObject]

\* dispatchEvent: every listener of the event's name is called, in order,
\* by listener.call(this, eventData).
Dispatched(ev) ==
    [ev EXCEPT !.heard = Registered(ev.name),
               !.receiver = IF Registered(ev.name) = <<>> THEN Null
                            ELSE SchedulerObject]

Heard(evs) == [i \in 1..Len(evs) |-> Dispatched(evs[i])]

Emit(l, chain, evs) == [l EXCEPT ![chain] = @ \o Heard(evs)]

\* The object given to the Scheduler constructor as context.
SchedulerContext == "ctx"

\* The object given to the Scheduler constructor as state.
SchedulerState == "state"

\* scheduler.vectorCache[id] = scheduler.vectorCache[id] || {}: caches vc
\* with an object for id, the one it has or else a new one.  Objects are
\* told apart by their number among those created for id.
Ensured(vc, id) ==
    [x \in DOMAIN vc \cup {id} |-> IF x \in DOMAIN vc THEN vc[x] ELSE 1]

\* scheduler.vectorCache[id] = {}: a new object on every execution.
Renewed(vc, id) ==
    [x \in DOMAIN vc \cup {id} |->
        IF x # id THEN vc[x] ELSE IF x \in DOMAIN vc THEN vc[x] + 1 ELSE 1]

\* What the listeners that call setContext pass to it.
ContextOf == [ctxA |-> "A", ctxB |-> "B"]

\* vectorInterface.context after the set event went to listeners ls: what
\* the last setContext call stored, or undefined, as vectorInterface is
\* built without a context.
ContextAfter(ls) ==
    LET calls == {i \in 1..Len(ls) : ls[i] \in DOMAIN ContextOf}
    IN IF calls = {} THEN Null
       ELSE ContextOf[ls[CHOOSE i \in calls : \A j \in calls : j <= i]]

\* Forget activations that have returned and whose result has been read.
Drop(fs, ids) == [x \in DOMAIN fs \ ids |-> fs[x]]

\* The activations still reachable: running or suspended ones, those a
\* suspended activation awaits, and those whose variables a running edge
\* setter closes over.
Collect(fs) ==
    LET live == {x \in DOMAIN fs : fs[x].st \notin {"ok", "err"}}
        keep == live
                \cup {x \in DOMAIN fs : \E y \in live :
                         \/ fs[y].st = "wait" /\ fs[y].wait = x
                         \/ fs[y].kind = "setter" /\ fs[y].own = x}
    IN [x \in keep |-> fs[x]]

VId(v) == IF v = Null THEN "" ELSE v[3]

\* An entry of ops: url() called, its promise settled, clearCache() called.
Op(op, call, loader) == [op |-> op, call |-> call, loader |-> loader]


(***************************************************************************)
(* Inputs of url().                                                        *)
(***************************************************************************)
Patterns == {<<"a">>, <<"d">>, <<"l">>, <<"l", "g">>, <<"n">>, <<>>}

\* The scheduler never inspects a payload: the n-th call sends n.
Values == {nCalls + 1}

Fields == {"in"}

Everything == {"g0", "g1", "pv"}

\* What the host may have: nothing, the linked artifacts only, or everything.
Hosting == {{}, {"g1", "pv"}, {"g0", "g1", "pv"}}

\* What the embedding program registers, and what it asks to be removed:
\* a listener it may have registered, one that is not in the entry of its
\* event name, and one of an event name that was never registered.
Registrations ==
    {<<"begin", "rec">>, <<"set", "ctxA">>, <<"set", "ctxB">>, <<"load", "sv">>}

Removals == {<<"begin", "rec">>, <<"set", "rec">>, <<"blah", "rec">>}

\* The state after new Scheduler(graph, context), for a graph among bases
\* and a host that has one of hostings.
Constructed(bases, hostings) ==
    /\ frames = <<>>
    /\ stack = <<>>
    /\ queue = <<>>
    /\ log = <<>>
    /\ graph \in bases
    /\ heap = Parse(graph[1], 0)
    /\ cache = [l \in {"graph", "vector"} |-> [u \in Urls |-> Null]]
    /\ fetchCount = [u \in Urls |-> 0]
    /\ sinceClear = [u \in Urls |-> 0]
    /\ gens = [a \in ArtifactNames |-> 0]
    /\ vectorCache = [id \in {} |-> 0]
    /\ fetchDefined \in BOOLEAN
    /\ served \in hostings
    /\ (~fetchDefined => served = {})
    /\ result = <<>>
    /\ unhandled = {}
    /\ ops = <<>>
    /\ nCalls = 0
    /\ nClears = 0
    /\ events = <<>>
    /\ nListens = 0
    /\ nRemoves = 0
    /\ listened = [r \in Registrations \cup Removals
                            \cup ({"begin"} \X MutatingListeners)
                            \cup ({"load"} \X AsyncListeners) |-> <<>>]
    /\ dispatching = Null

Construct == Constructed({<<"g0", 0>>, <<"ge", 0>>}, Hosting)

\* A scheduler and an embedding program that does not wait for a traversal
\* to finish before its next call.
Init == Construct /\ overlap = TRUE

\* A scheduler of the base graph g0 whose host has everything or has no
\* fetch, and an embedding program that registers listeners and makes its
\* calls one after the other.
InitL ==
    /\ Construct
    /\ overlap = FALSE
    /\ graph = <<"g0", 0>>
    /\ fetchDefined => served = Everything

\* A scheduler of the base graph g0 or gn whose host has every artifact, or
\* every artifact but the graph g2, or every artifact but the vector pv,
\* and an embedding program that makes its calls one after the other.
InitN ==
    /\ Constructed({<<"g0", 0>>, <<"gn", 0>>},
                   {ArtifactNames, ArtifactNames \ {"g2"}, ArtifactNames \ {"pv"}})
    /\ overlap = FALSE
    /\ fetchDefined

\* A scheduler of the base graph g0 or gn whose host has every artifact, or
\* every artifact but the graph g1, and an embedding program that makes its
\* calls one after the other.
InitR ==
    /\ Constructed({<<"g0", 0>>, <<"gn", 0>>},
                   {ArtifactNames, ArtifactNames \ {"g1"}})
    /\ overlap = FALSE
    /\ fetchDefined

(***************************************************************************)
(* Scheduler.url                                                           *)
(***************************************************************************)

\* url() that calls the edge executor without dispatching begin.
UrlNoBegin(p, v, fld) ==
    /\ stack = <<>>
    /\ overlap \/ frames = <<>>
    /\ nCalls < MaxCalls
    /\ LET u == <<nCalls + 1>>
           e == Append(u, 1)
           vector == FindByUrl(graph, p)
           begin == [Event0 EXCEPT !.name = "begin", !.fr = u, !.url = p]
           warning == [Event0 EXCEPT !.name = "warning", !.fr = u, !.url = p,
                          !.message = "Cannot find vector at the specified URL."]
           end == [Event0 EXCEPT !.name = "end", !.fr = u, !.url = p]
           me == [Frame0 EXCEPT !.kind = "url", !.url = p, !.value = v,
                                !.field = fld, !.chain = u]
       IN IF vector = Null
          THEN /\ frames' = frames
               /\ log' = log @@ (u :> Heard(<<begin>>
                                        \o (IF p # <<>> THEN <<warning>> ELSE <<>>)
                                        \o <<end>>))
               /\ stack' = <<>>
               /\ result' = result @@ (u :> "ok")
               /\ ops' = ops \o <<Op("url", u, ""), Op("settled", u, "")>>
          ELSE /\ frames' = frames
                    @@ (u :> [me EXCEPT !.pc = "await", !.st = "wait", !.wait = e])
                    @@ (e :> [Frame0 EXCEPT !.kind = "edge", !.pc = "begin",
                                 !.graph = graph, !.vector = vector,
                                 !.field = fld, !.value = v, !.chain = u])
               /\ log' = log @@ (u :> <<>>)
               /\ stack' = <<e>>
               /\ result' = result
               /\ ops' = Append(ops, Op("url", u, ""))
    /\ nCalls' = nCalls + 1
    /\ UNCHANGED <<heap, cache, fetchCount, sinceClear, gens, vectorCache,
                   graph, fetchDefined, served, unhandled, nClears>>

\* url() that is silent about a pattern that matches nothing.
UrlNoWarning(p, v, fld) ==
    /\ stack = <<>>
    /\ overlap \/ frames = <<>>
    /\ nCalls < MaxCalls
    /\ LET u == <<nCalls + 1>>
           e == Append(u, 1)
           vector == FindByUrl(graph, p)
           begin == [Event0 EXCEPT !.name = "begin", !.fr = u, !.url = p]
           warning == [Event0 EXCEPT !.name = "warning", !.fr = u, !.url = p,
                          !.message = "Cannot find vector at the specified URL."]
           end == [Event0 EXCEPT !.name = "end", !.fr = u, !.url = p]
           me == [Frame0 EXCEPT !.kind = "url", !.url = p, !.value = v,
                                !.field = fld, !.chain = u]
       IN IF vector = Null
          THEN /\ frames' = frames
               /\ log' = log @@ (u :> Heard(<<begin>>
                                        \o <<>>
                                        \o <<end>>))
               /\ stack' = <<>>
               /\ result' = result @@ (u :> "ok")
               /\ ops' = ops \o <<Op("url", u, ""), Op("settled", u, "")>>
          ELSE /\ frames' = frames
                    @@ (u :> [me EXCEPT !.pc = "await", !.st = "wait", !.wait = e])
                    @@ (e :> [Frame0 EXCEPT !.kind = "edge", !.pc = "begin",
                                 !.graph = graph, !.vector = vector,
                                 !.field = fld, !.value = v, !.chain = u])
               /\ log' = log @@ (u :> Heard(<<begin>>))
               /\ stack' = <<e>>
               /\ result' = result
               /\ ops' = Append(ops, Op("url", u, ""))
    /\ nCalls' = nCalls + 1
    /\ UNCHANGED <<heap, cache, fetchCount, sinceClear, gens, vectorCache,
                   graph, fetchDefined, served, unhandled, nClears>>

\* url(): dispatch begin, find the vector, warn on a miss, call the edge
\* executor and await it; without a match the call runs through to end.
Url(p, v, fld) ==
    /\ stack = <<>>
    /\ overlap \/ frames = <<>>
    /\ nCalls < MaxCalls
    /\ LET u == <<nCalls + 1>>
           e == Append(u, 1)
           vector == FindByUrl(graph, p)
           begin == [Event0 EXCEPT !.name = "begin", !.fr = u, !.url = p]
           warning == [Event0 EXCEPT !.name = "warning", !.fr = u, !.url = p,
                          !.message = "Cannot find vector at the specified URL."]
           end == [Event0 EXCEPT !.name = "end", !.fr = u, !.url = p]
           me == [Frame0 EXCEPT !.kind = "url", !.url = p, !.value = v,
                                !.field = fld, !.chain = u]
       IN IF vector = Null
          THEN /\ frames' = frames
               /\ log' = log @@ (u :> Heard(<<begin>>
                                        \o (IF p # <<>> THEN <<warning>> ELSE <<>>)
                                        \o <<end>>))
               /\ stack' = <<>>
               /\ result' = result @@ (u :> "ok")
               /\ ops' = ops \o <<Op("url", u, ""), Op("settled", u, "")>>
          ELSE /\ frames' = frames
                    @@ (u :> [me EXCEPT !.pc = "await", !.st = "wait", !.wait = e])
                    @@ (e :> [Frame0 EXCEPT !.kind = "edge", !.pc = "begin",
                                 !.graph = graph, !.vector = vector,
                                 !.field = fld, !.value = v, !.chain = u])
               /\ log' = log @@ (u :> Heard(<<begin>>))
               /\ stack' = <<e>>
               /\ result' = result
               /\ ops' = Append(ops, Op("url", u, ""))
    /\ nCalls' = nCalls + 1
    /\ UNCHANGED <<heap, cache, fetchCount, sinceClear, gens, vectorCache,
                   graph, fetchDefined, served, unhandled, nClears>>

\* url() that resolves without dispatching end.
UrlEndNoEnd(f) ==
    /\ Cur(f)
    /\ frames[f].kind = "url"
    /\ frames[f].pc = "await"
    /\ result' = result @@ (f :> IF frames[frames[f].wait].st = "err" THEN "err" ELSE "ok")
    /\ frames' = Drop(frames, {f, frames[f].wait})
    /\ stack' = Base
    /\ ops' = Append(ops, Op("settled", f, ""))
    /\ UNCHANGED <<log, heap, cache, fetchCount, sinceClear, gens, vectorCache,
                   graph, fetchDefined, served, unhandled, nCalls, nClears>>

\* url() resumes after `await execute(...)`: dispatch end and resolve; a
\* rejection of the awaited promise rejects url().
UrlEnd(f) ==
    /\ Cur(f)
    /\ frames[f].kind = "url"
    /\ frames[f].pc = "await"
    /\ LET fr == frames[f]
           end == [Event0 EXCEPT !.name = "end", !.fr = f, !.url = fr.url]
       IN IF frames[fr.wait].st = "err"
          THEN /\ result' = result @@ (f :> "err")
               /\ log' = log
          ELSE /\ result' = result @@ (f :> "ok")
               /\ log' = Emit(log, fr.chain, <<end>>)
    /\ frames' = Drop(frames, {f, frames[f].wait})
    /\ stack' = Base
    /\ ops' = Append(ops, Op("settled", f, ""))
    /\ UNCHANGED <<heap, cache, fetchCount, sinceClear, gens, vectorCache,
                   graph, fetchDefined, served, unhandled, nCalls, nClears>>

(***************************************************************************)
(* Edge.execute                                                            *)
(***************************************************************************)
\* Dispatch beginedge and call the vector executor.
EdgeExecute(f) ==
    /\ Cur(f)
    /\ frames[f].kind = "edge"
    /\ frames[f].pc = "begin"
    /\ LET fr == frames[f]
           x == Append(f, 2)
           beginedge == [Event0 EXCEPT !.name = "beginedge", !.fr = f,
                            !.vectorId = VId(fr.vector), !.graphId = GraphId(fr.graph),
                            !.field = fr.field, !.value = fr.value]
       IN /\ frames' = [frames EXCEPT ![f].pc = "then", ![f].st = "wait", ![f].wait = x]
               @@ (x :> [Frame0 EXCEPT !.kind = "vexec", !.pc = "linkedVector",
                            !.graph = fr.graph, !.vector = fr.vector,
                            !.vect = fr.vector, !.field = fr.field,
                            !.value = fr.value, !.chain = fr.chain])
          /\ log' = Emit(log, fr.chain, <<beginedge>>)
          /\ stack' = <<x>> \o Base
    /\ UNCHANGED <<heap, cache, fetchCount, sinceClear, gens, vectorCache,
                   graph, fetchDefined, served, result, unhandled, ops,
                   nCalls, nClears>>

\* An envelope that dispatches no endedge after a failed execution.
EdgeExecuteEndNoEnd(f) ==
    /\ Cur(f)
    /\ frames[f].kind = "edge"
    /\ frames[f].pc = "then"
    /\ LET fr == frames[f]
           endedge == [Event0 EXCEPT !.name = "endedge", !.fr = f,
                          !.vectorId = VId(fr.vector), !.graphId = GraphId(fr.graph),
                          !.field = fr.field, !.value = fr.value]
           error == [Event0 EXCEPT !.name = "error", !.fr = f,
                        !.vectorId = VId(fr.vector), !.graphId = GraphId(fr.graph),
                        !.field = fr.field, !.value = fr.value,
                        !.message = "Edge: Error occured during node.execute",
                        !.err = frames[fr.wait].err]
       IN /\ frames' = Collect([frames EXCEPT ![f].pc = "done", ![f].st = "ok"])
          /\ log' = Emit(log, fr.chain,
                         IF frames[fr.wait].st = "err" THEN <<error>>
                         ELSE <<endedge>>)
    /\ stack' = Base
    /\ UNCHANGED <<heap, cache, fetchCount, sinceClear, gens, vectorCache,
                   graph, fetchDefined, served, result, unhandled, ops,
                   nCalls, nClears>>

\* The edge executor of src/unnamed/part_003: end(er) rejects the promise of
\* execute when the vector executor failed, and dispatches endedge either
\* way.
EdgeExecuteEndRejects(f) ==
    /\ Cur(f)
    /\ frames[f].kind = "edge"
    /\ frames[f].pc = "then"
    /\ LET fr == frames[f]
           endedge == [Event0 EXCEPT !.name = "endedge", !.fr = f,
                          !.vectorId = VId(fr.vector), !.graphId = GraphId(fr.graph),
                          !.field = fr.field, !.value = fr.value]
           error == [Event0 EXCEPT !.name = "error", !.fr = f,
                        !.vectorId = VId(fr.vector), !.graphId = GraphId(fr.graph),
                        !.field = fr.field, !.value = fr.value,
                        !.message = "Edge: Error occurred during node.execute",
                        !.err = frames[fr.wait].err]
       IN /\ frames' = Collect([frames EXCEPT
                         ![f].pc = "done",
                         ![f].st = IF frames[fr.wait].st = "err" THEN "err" ELSE "ok",
                         ![f].err = frames[fr.wait].err])
          /\ log' = Emit(log, fr.chain,
                         IF frames[fr.wait].st = "err" THEN <<error, endedge>>
                         ELSE <<endedge>>)
    /\ stack' = Base
    /\ UNCHANGED <<heap, cache, fetchCount, sinceClear, gens, vectorCache,
                   graph, fetchDefined, served, result, unhandled, ops,
                   nCalls, nClears>>

\* .then(end).catch(...): on settlement dispatch endedge, on rejection
\* dispatch error first; the promise of execute is fulfilled either way.
EdgeExecuteEnd(f) ==
    /\ Cur(f)
    /\ frames[f].kind = "edge"
    /\ frames[f].pc = "then"
    /\ LET fr == frames[f]
           endedge == [Event0 EXCEPT !.name = "endedge", !.fr = f,
                          !.vectorId = VId(fr.vector), !.graphId = GraphId(fr.graph),
                          !.field = fr.field, !.value = fr.value]
           error == [Event0 EXCEPT !.name = "error", !.fr = f,
                        !.vectorId = VId(fr.vector), !.graphId = GraphId(fr.graph),
                        !.field = fr.field, !.value = fr.value,
                        !.message = "Edge: Error occured during node.execute",
                        !.err = frames[fr.wait].err]
       IN /\ frames' = Collect([frames EXCEPT ![f].pc = "done", ![f].st = "ok"])
          /\ log' = Emit(log, fr.chain,
                         IF frames[fr.wait].st = "err" THEN <<error, endedge>>
                         ELSE <<endedge>>)
    /\ stack' = Base
    /\ UNCHANGED <<heap, cache, fetchCount, sinceClear, gens, vectorCache,
                   graph, fetchDefined, served, result, unhandled, ops,
                   nCalls, nClears>>


(***************************************************************************)
(* Loader.load and Loader.clearCache                                       *)
(***************************************************************************)
\* The object the listener that calls setValue passes for a URL: the
\* embedding program's own object of the artifact at that URL.
Given(loader, url) ==
    IF loader = "vector" THEN <<Hosted(url), 0, Hosted(url)>> ELSE <<Hosted(url), 0>>

\* load(url) whose load event carries a setValue that stores nothing.
LoadNoSetValue(f) ==
    /\ Cur(f)
    /\ frames[f].kind = "load"
    /\ frames[f].pc = "start"
    /\ LET fr == frames[f]
           load == [Event0 EXCEPT !.name = "load", !.fr = f, !.arg = fr.url]
           error == [Event0 EXCEPT !.name = "error", !.fr = f,
                        !.message = "Fetch is not defined"]
           setValue == FALSE
           cached == IF setValue THEN Given(fr.loader, fr.url)
                     ELSE cache[fr.loader][fr.url]
       IN /\ cache' = [cache EXCEPT ![fr.loader][fr.url] = cached]
          /\ heap' = IF setValue THEN heap @@ Parse(Hosted(fr.url), 0) ELSE heap
          /\ IF cached # Null
             THEN /\ frames' = [frames EXCEPT ![f].pc = "done", ![f].st = "ok",
                                              ![f].ret = cached]
                  /\ log' = Emit(log, fr.chain, <<load>>)
                  /\ fetchCount' = fetchCount
                  /\ sinceClear' = sinceClear
             ELSE IF ~fetchDefined
             THEN /\ frames' = [frames EXCEPT ![f].pc = "done", ![f].st = "err",
                                              ![f].err = "Fetch is not defined"]
                  /\ log' = Emit(log, fr.chain, <<load, error>>)
                  /\ fetchCount' = fetchCount
                  /\ sinceClear' = sinceClear
             ELSE /\ frames' = [frames EXCEPT ![f].pc = "fetching", ![f].st = "wait"]
                  /\ log' = Emit(log, fr.chain, <<load>>)
                  /\ fetchCount' = [fetchCount EXCEPT ![fr.url] = @ + 1]
                  /\ sinceClear' = [sinceClear EXCEPT ![fr.url] = @ + 1]
    /\ stack' = Base
    /\ UNCHANGED <<gens, vectorCache, graph, fetchDefined, served, result,
                   unhandled, ops, nCalls, nClears>>

\* load(url) that, without a host fetch, stores the object of an earlier
\* generation under the URL before it rejects.
LoadFailureCached(f) ==
    /\ Cur(f)
    /\ frames[f].kind = "load"
    /\ frames[f].pc = "start"
    /\ LET fr == frames[f]
           load == [Event0 EXCEPT !.name = "load", !.fr = f, !.arg = fr.url]
           error == [Event0 EXCEPT !.name = "error", !.fr = f,
                        !.message = "Fetch is not defined"]
           setValue == "sv" \in Range(Registered("load"))
           cached == IF setValue THEN Given(fr.loader, fr.url)
                     ELSE cache[fr.loader][fr.url]
       IN /\ cache' = [cache EXCEPT ![fr.loader][fr.url] =
                        IF cached = Null /\ ~fetchDefined
                        THEN Given(fr.loader, fr.url) ELSE cached]
          /\ heap' = IF setValue THEN heap @@ Parse(Hosted(fr.url), 0) ELSE heap
          /\ IF cached # Null
             THEN /\ frames' = [frames EXCEPT ![f].pc = "done", ![f].st = "ok",
                                              ![f].ret = cached]
                  /\ log' = Emit(log, fr.chain, <<load>>)
                  /\ fetchCount' = fetchCount
                  /\ sinceClear' = sinceClear
             ELSE IF ~fetchDefined
             THEN /\ frames' = [frames EXCEPT ![f].pc = "done", ![f].st = "err",
                                              ![f].err = "Fetch is not defined"]
                  /\ log' = Emit(log, fr.chain, <<load, error>>)
                  /\ fetchCount' = fetchCount
                  /\ sinceClear' = sinceClear
             ELSE /\ frames' = [frames EXCEPT ![f].pc = "fetching", ![f].st = "wait"]
                  /\ log' = Emit(log, fr.chain, <<load>>)
                  /\ fetchCount' = [fetchCount EXCEPT ![fr.url] = @ + 1]
                  /\ sinceClear' = [sinceClear EXCEPT ![fr.url] = @ + 1]
    /\ stack' = Base
    /\ UNCHANGED <<gens, vectorCache, graph, fetchDefined, served, result,
                   unhandled, ops, nCalls, nClears>>

\* The activation of an asynchronous listener called with the load event
\* of load call f.
ListenerOf(f) == Append(f, 6)

\* The async listeners of load, called by the dispatch, run up to their
\* await of the store and return a promise that dispatchEvent drops.
Listening(f) ==
    IF "asv" \in Range(Registered("load"))
    THEN ListenerOf(f) :> [Frame0 EXCEPT !.kind = "listener", !.pc = "lookup",
                              !.st = "wait", !.loader = frames[f].loader,
                              !.url = frames[f].url, !.chain = frames[f].chain]
    ELSE <<>>

\* load(url) up to its first await: dispatch load, whose listeners may
\* call setValue, answer from the cache, fail without a host fetch, or
\* invoke fetch.
Load(f) ==
    /\ Cur(f)
    /\ frames[f].kind = "load"
    /\ frames[f].pc = "start"
    /\ LET fr == frames[f]
           load == [Event0 EXCEPT !.name = "load", !.fr = f, !.arg = fr.url]
           error == [Event0 EXCEPT !.name = "error", !.fr = f,
                        !.message = "Fetch is not defined"]
           setValue == "sv" \in Range(Registered("load"))
           cached == IF setValue THEN Given(fr.loader, fr.url)
                     ELSE cache[fr.loader][fr.url]
       IN /\ cache' = [cache EXCEPT ![fr.loader][fr.url] = cached]
          /\ heap' = IF setValue THEN heap @@ Parse(Hosted(fr.url), 0) ELSE heap
          /\ IF cached # Null
             THEN /\ frames' = [frames EXCEPT ![f].pc = "done", ![f].st = "ok",
                                              ![f].ret = cached] @@ Listening(f)
                  /\ log' = Emit(log, fr.chain, <<load>>)
                  /\ fetchCount' = fetchCount
                  /\ sinceClear' = sinceClear
             ELSE IF ~fetchDefined
             THEN /\ frames' = [frames EXCEPT ![f].pc = "done", ![f].st = "err",
                                              ![f].err = "Fetch is not defined"]
                                @@ Listening(f)
                  /\ log' = Emit(log, fr.chain, <<load, error>>)
                  /\ fetchCount' = fetchCount
                  /\ sinceClear' = sinceClear
             ELSE /\ frames' = [frames EXCEPT ![f].pc = "fetching", ![f].st = "wait"]
                                @@ Listening(f)
                  /\ log' = Emit(log, fr.chain, <<load>>)
                  /\ fetchCount' = [fetchCount EXCEPT ![fr.url] = @ + 1]
                  /\ sinceClear' = [sinceClear EXCEPT ![fr.url] = @ + 1]
    /\ stack' = Base
    /\ UNCHANGED <<gens, vectorCache, graph, fetchDefined, served, result,
                   unhandled, ops, nCalls, nClears>>

\* The response arrives: cache[url] = await data.json(); return cache[url].
Fetched(f) ==
    /\ stack = <<>>
    /\ queue = <<>>
    /\ frames[f].kind = "load"
    /\ frames[f].pc = "fetching"
    /\ LET fr == frames[f]
           art == Hosted(fr.url)
           gen == gens[art] + 1
           ref == IF fr.loader = "vector" THEN <<art, gen, art>> ELSE <<art, gen>>
       IN IF art \in served
          THEN /\ heap' = heap @@ Parse(art, gen)
               /\ gens' = [gens EXCEPT ![art] = gen]
               /\ cache' = [cache EXCEPT ![fr.loader][fr.url] = ref]
               /\ frames' = [frames EXCEPT ![f].pc = "done", ![f].st = "ok", ![f].ret = ref]
          ELSE /\ heap' = heap
               /\ gens' = gens
               /\ cache' = [cache EXCEPT ![fr.loader][fr.url] = Null]
               /\ frames' = [frames EXCEPT ![f].pc = "done", ![f].st = "ok", ![f].ret = Null]
    /\ UNCHANGED <<stack, log, fetchCount, sinceClear, vectorCache, graph,
                   fetchDefined, served, result, unhandled, ops, nCalls,
                   nClears>>

\* The store answers the lookup of listener x, which calls setValue with
\* the item: cache[url] = val.
StoreAnswered(x) ==
    /\ stack = <<>>
    /\ queue = <<>>
    /\ frames[x].kind = "listener"
    /\ frames[x].pc = "lookup"
    /\ LET fr == frames[x]
       IN /\ cache' = [cache EXCEPT ![fr.loader][fr.url] = Given(fr.loader, fr.url)]
          /\ heap' = heap @@ Parse(Hosted(fr.url), 0)
    /\ frames' = Collect([frames EXCEPT ![x].pc = "done", ![x].st = "ok"])
    /\ UNCHANGED <<stack, log, fetchCount, sinceClear, gens, vectorCache, graph,
                   fetchDefined, served, result, unhandled, ops, nCalls,
                   nClears>>

\* clearCache() that also forgets which links were resolved.
ClearCacheResets(loader) ==
    /\ stack = <<>>
    /\ overlap \/ frames = <<>>
    /\ nClears < MaxClears
    /\ cache' = [cache EXCEPT ![loader] = [u \in Urls |-> Null]]
    /\ heap' = [r \in DOMAIN heap |->
                  [heap[r] EXCEPT !.lvLoaded = FALSE, !.lgLoaded = FALSE]]
    /\ sinceClear' = [u \in Urls |-> IF LoaderOf(u) = loader THEN 0 ELSE sinceClear[u]]
    /\ ops' = Append(ops, Op("clearCache", Null, loader))
    /\ nClears' = nClears + 1
    /\ UNCHANGED <<frames, stack, log, fetchCount, gens, vectorCache, graph,
                   fetchDefined, served, result, unhandled, nCalls>>

\* clearCache(): delete every key of the loader's cache.
ClearCache(loader) ==
    /\ stack = <<>>
    /\ overlap \/ frames = <<>>
    /\ nClears < MaxClears
    /\ cache' = [cache EXCEPT ![loader] = [u \in Urls |-> Null]]
    /\ nClears' = nClears + 1
    /\ sinceClear' = [u \in Urls |-> IF LoaderOf(u) = loader THEN 0 ELSE sinceClear[u]]
    /\ ops' = Append(ops, Op("clearCache", Null, loader))
    /\ UNCHANGED <<frames, stack, log, heap, fetchCount, gens, vectorCache,
                   graph, fetchDefined, served, result, unhandled, nCalls>>

(***************************************************************************)
(* Vector.linkInnerVectorEdges and Vector.getLinkedInputs                  *)
(***************************************************************************)
\* edg.connectors = [...edg.connectors, ...linkedEdge.connectors]: every
\* connector of the linked edge is added, whatever the edge holds.
PushAll(connectors, linked) == connectors \o linked

\* connectorIds = edg.connectors.map(c => c.id); push every connector of
\* the linked edge whose id is not among them.
PushNew(connectors, linked) ==
    LET connectorIds == Range(connectors)
    IN connectors \o SelectSeq(linked, LAMBDA c : c \notin connectorIds)

\* vect.edges.find(edge => edge.field === output.field && output.id === v.id)
LinkedEdge(hostEdges, output, vid) ==
    LET hits == {i \in 1..Len(hostEdges) :
                    hostEdges[i].field = output.field /\ output.id = vid}
    IN IF hits = {} THEN Null
       ELSE <<hostEdges[CHOOSE i \in hits : \A j \in hits : i <= j]>>

RECURSIVE SpliceEdge(_, _, _, _, _)
\* Object.keys(outputs).forEach(...) for one inner edge.
SpliceEdge(connectors, hostEdges, outputs, vid, k) ==
    IF k > Len(outputs) THEN connectors
    ELSE LET linkedEdge == LinkedEdge(hostEdges, outputs[k], vid)
         IN SpliceEdge(IF linkedEdge = Null THEN connectors
                       ELSE PushNew(connectors, linkedEdge[1].connectors),
                       hostEdges, outputs, vid, k + 1)

\* An override that replaces the payload of every inner vector when the map
\* has an entry at all.
OverrideAny(map, vid, old) ==
    IF map # <<>> THEN map[1].val ELSE old

\* The replacement payload for v.id in linkedGraph.data / properties.
Override(map, vid, old) ==
    IF \E i \in 1..Len(map) : map[i].id = vid
    THEN map[CHOOSE i \in 1..Len(map) : map[i].id = vid].val
    ELSE old

\* linkInnerVectorEdges(vect) on a linked graph g that is present.
linkInnerVectorEdges(h, vect, g) ==
    LET lg == Def(vect).linkedGraph
        hostEdges == h[vect].edges
        Spliced(edg, vid) ==
            [edg EXCEPT !.connectors =
                SpliceEdge(edg.connectors, hostEdges, lg.outputs, vid, 1)]
    IN [r \in DOMAIN h |->
          IF Len(r) = 3 /\ GraphOf(r) = g
          THEN [edges |-> [i \in 1..Len(h[r].edges) |-> Spliced(h[r].edges[i], r[3])],
                data |-> Override(lg.data, r[3], h[r].data),
                properties |-> Override(lg.properties, r[3], h[r].properties),
                lvLoaded |-> h[r].lvLoaded, lvVector |-> h[r].lvVector,
                lgLoaded |-> h[r].lgLoaded, lgGraph |-> h[r].lgGraph]
          ELSE h[r]]

\* inputs[field]
MappedConnector(vect, field) ==
    LET inputs == Def(vect).linkedGraph.inputs
        hits == {i \in 1..Len(inputs) : inputs[i].key = field}
    IN IF hits = {} THEN Null ELSE <<inputs[CHOOSE i \in hits : TRUE]>>


(***************************************************************************)
(* Vector.execute                                                          *)
(***************************************************************************)
LoadFrame(loader, url, chain) ==
    [Frame0 EXCEPT !.kind = "load", !.pc = "start", !.loader = loader,
                   !.url = url, !.chain = chain]

\* The test `!vector.linkedVector.vector` on what the load returned.
LinkedVectorFoundAlways(ret) == TRUE

LinkedVectorFound(ret) == ret # Null

\* if (vector.linkedVector && !vector.linkedVector.loaded) load it
ExecuteLinkedVector(f) ==
    /\ Cur(f)
    /\ frames[f].kind = "vexec"
    /\ frames[f].pc = "linkedVector"
    /\ LET fr == frames[f]
           lv == Def(fr.vector).linkedVector
           l == Append(f, 3)
       IN IF lv.has /\ ~heap[fr.vector].lvLoaded
          THEN /\ frames' = [frames EXCEPT ![f].pc = "linkedVectorLoaded",
                                           ![f].st = "wait", ![f].wait = l]
                    @@ (l :> LoadFrame("vector", getVectorPath(lv.id, lv.version), fr.chain))
               /\ stack' = <<l>> \o Base
          ELSE /\ frames' = [frames EXCEPT ![f].pc = "linkedGraph"]
               /\ stack' = stack
    /\ UNCHANGED <<log, heap, cache, fetchCount, sinceClear, gens,
                   vectorCache, graph, fetchDefined, served, result,
                   unhandled, ops, nCalls, nClears>>

\* An execution that rejects when the linked vector is missing.
ExecuteLinkedVectorLoadedThrows(f) ==
    /\ Cur(f)
    /\ frames[f].kind = "vexec"
    /\ frames[f].pc = "linkedVectorLoaded"
    /\ LET fr == frames[f]
           l == frames[fr.wait]
           error == [Event0 EXCEPT !.name = "error", !.fr = f,
                        !.vectorId = VId(fr.vector), !.graphId = GraphId(fr.graph),
                        !.message = "Linked vector not found"]
       IN IF l.st = "err"
          THEN /\ frames' = Collect([frames EXCEPT ![f].pc = "done", ![f].st = "err",
                                                   ![f].err = l.err])
               /\ heap' = heap
               /\ log' = log
               /\ stack' = Base
          ELSE IF ~LinkedVectorFound(l.ret)
          THEN /\ frames' = Collect([frames EXCEPT ![f].pc = "done", ![f].st = "err",
                                                   ![f].err = "Linked vector not found"])
               /\ heap' = [heap EXCEPT ![fr.vector].lvVector = Null]
               /\ log' = Emit(log, fr.chain, <<error>>)
               /\ stack' = Base
          ELSE /\ frames' = Collect([frames EXCEPT ![f].pc = "linkedGraph", ![f].st = "run",
                                                   ![f].vect = l.ret])
               /\ heap' = [heap EXCEPT ![fr.vector].lvVector = l.ret,
                                       ![fr.vector].lvLoaded = TRUE,
                                       ![l.ret].data = heap[fr.vector].data,
                                       ![l.ret].properties = heap[fr.vector].properties]
               /\ log' = log
               /\ stack' = <<f>> \o Base
    /\ UNCHANGED <<cache, fetchCount, sinceClear, gens, vectorCache, graph,
                   fetchDefined, served, result, unhandled, ops, nCalls,
                   nClears>>

\* vector.linkedVector.vector = await load(...): a missing artifact is an
\* error event; otherwise mark loaded and go on with the linked vector,
\* which takes the host's data and properties.
ExecuteLinkedVectorLoaded(f) ==
    /\ Cur(f)
    /\ frames[f].kind = "vexec"
    /\ frames[f].pc = "linkedVectorLoaded"
    /\ LET fr == frames[f]
           l == frames[fr.wait]
           error == [Event0 EXCEPT !.name = "error", !.fr = f,
                        !.vectorId = VId(fr.vector), !.graphId = GraphId(fr.graph),
                        !.message = "Linked vector not found"]
       IN IF l.st = "err"
          THEN /\ frames' = Collect([frames EXCEPT ![f].pc = "done", ![f].st = "err",
                                                   ![f].err = l.err])
               /\ heap' = heap
               /\ log' = log
               /\ stack' = Base
          ELSE IF ~LinkedVectorFound(l.ret)
          THEN /\ frames' = Collect([frames EXCEPT ![f].pc = "linkedGraph", ![f].st = "run"])
               /\ heap' = [heap EXCEPT ![fr.vector].lvVector = Null]
               /\ log' = Emit(log, fr.chain, <<error>>)
               /\ stack' = <<f>> \o Base
          ELSE /\ frames' = Collect([frames EXCEPT ![f].pc = "linkedGraph", ![f].st = "run",
                                                   ![f].vect = l.ret])
               /\ heap' = [heap EXCEPT ![fr.vector].lvVector = l.ret,
                                       ![fr.vector].lvLoaded = TRUE,
                                       ![l.ret].data = heap[fr.vector].data,
                                       ![l.ret].properties = heap[fr.vector].properties]
               /\ log' = log
               /\ stack' = <<f>> \o Base
    /\ UNCHANGED <<cache, fetchCount, sinceClear, gens, vectorCache, graph,
                   fetchDefined, served, result, unhandled, ops, nCalls,
                   nClears>>

\* if (vect.linkedGraph) { if (!vect.linkedGraph.loaded) load it ... }
ExecuteLinkedGraph(f) ==
    /\ Cur(f)
    /\ frames[f].kind = "vexec"
    /\ frames[f].pc = "linkedGraph"
    /\ LET fr == frames[f]
           lg == Def(fr.vect).linkedGraph
           l == Append(f, 4)
       IN IF lg.has /\ ~heap[fr.vect].lgLoaded
          THEN /\ frames' = [frames EXCEPT ![f].pc = "linkedGraphLoaded",
                                           ![f].st = "wait", ![f].wait = l]
                    @@ (l :> LoadFrame("graph", getGraphPath(lg.id, lg.version), fr.chain))
               /\ stack' = <<l>> \o Base
          ELSE /\ frames' = [frames EXCEPT ![f].pc = IF lg.has THEN "remap" ELSE "run"]
               /\ stack' = stack
    /\ UNCHANGED <<log, heap, cache, fetchCount, sinceClear, gens,
                   vectorCache, graph, fetchDefined, served, result,
                   unhandled, ops, nCalls, nClears>>

\* vect.linkedGraph.graph = await load(...); linkInnerVectorEdges(vect),
\* which throws when the graph is missing; vect.linkedGraph.loaded = true.
ExecuteLinkedGraphLoaded(f) ==
    /\ Cur(f)
    /\ frames[f].kind = "vexec"
    /\ frames[f].pc = "linkedGraphLoaded"
    /\ LET fr == frames[f]
           l == frames[fr.wait]
           assigned == [heap EXCEPT ![fr.vect].lgGraph = l.ret]
       IN IF l.st = "err"
          THEN /\ frames' = Collect([frames EXCEPT ![f].pc = "done", ![f].st = "err",
                                                   ![f].err = l.err])
               /\ heap' = heap
               /\ stack' = Base
          ELSE IF l.ret = Null
          THEN /\ frames' = Collect([frames EXCEPT ![f].pc = "done", ![f].st = "err",
                                ![f].err = "Critical Error: Linked graph not found"])
               /\ heap' = assigned
               /\ stack' = Base
          ELSE /\ frames' = Collect([frames EXCEPT ![f].pc = "remap", ![f].st = "run"])
               /\ heap' = [linkInnerVectorEdges(assigned, fr.vect, l.ret)
                              EXCEPT ![fr.vect].lgLoaded = TRUE]
               /\ stack' = <<f>> \o Base
    /\ UNCHANGED <<log, cache, fetchCount, sinceClear, gens, vectorCache,
                   graph, fetchDefined, served, result, unhandled, ops,
                   nCalls, nClears>>

\* getLinkedInputs that maps to the inner vector without replacing the field.
ExecuteRemapKeepsField(f) ==
    /\ Cur(f)
    /\ frames[f].kind = "vexec"
    /\ frames[f].pc = "remap"
    /\ LET fr == frames[f]
           g == heap[fr.vect].lgGraph
           mappedConnector == MappedConnector(fr.vect, fr.field)
           inner == IF g = Null \/ mappedConnector = Null THEN Null
                    ELSE FindById(g, mappedConnector[1].id)
           error == [Event0 EXCEPT !.name = "error", !.fr = f,
                        !.vectorId = VId(fr.vector), !.graphId = GraphId(fr.graph),
                        !.message = "Linked graph not found"]
       IN IF Def(fr.vector).linkedGraph.has /\ heap[fr.vector].lgGraph = Null
          THEN /\ frames' = [frames EXCEPT ![f].pc = "run"]
               /\ log' = Emit(log, fr.chain, <<error>>)
               /\ stack' = stack
          ELSE IF mappedConnector = Null
          THEN /\ frames' = [frames EXCEPT ![f].pc = "run", ![f].graph = g]
               /\ log' = log
               /\ stack' = stack
          ELSE IF inner = Null
          THEN /\ frames' = [frames EXCEPT ![f].pc = "done", ![f].st = "err",
                                           ![f].err = "TypeError"]
               /\ log' = log
               /\ stack' = Base
          ELSE /\ frames' = [frames EXCEPT ![f].pc = "run", ![f].graph = g,
                                ![f].field = fr.field,
                                ![f].vect = inner]
               /\ log' = log
               /\ stack' = stack
    /\ UNCHANGED <<heap, cache, fetchCount, sinceClear, gens, vectorCache,
                   graph, fetchDefined, served, result, unhandled, ops,
                   nCalls, nClears>>

\* if (vector.linkedGraph && !vector.linkedGraph.graph) error, else adopt
\* the linked graph and remap field and vector (getLinkedInputs).
ExecuteRemap(f) ==
    /\ Cur(f)
    /\ frames[f].kind = "vexec"
    /\ frames[f].pc = "remap"
    /\ LET fr == frames[f]
           g == heap[fr.vect].lgGraph
           mappedConnector == MappedConnector(fr.vect, fr.field)
           inner == IF g = Null \/ mappedConnector = Null THEN Null
                    ELSE FindById(g, mappedConnector[1].id)
           error == [Event0 EXCEPT !.name = "error", !.fr = f,
                        !.vectorId = VId(fr.vector), !.graphId = GraphId(fr.graph),
                        !.message = "Linked graph not found"]
       IN IF Def(fr.vector).linkedGraph.has /\ heap[fr.vector].lgGraph = Null
          THEN /\ frames' = [frames EXCEPT ![f].pc = "run"]
               /\ log' = Emit(log, fr.chain, <<error>>)
               /\ stack' = stack
          ELSE IF mappedConnector = Null
          THEN /\ frames' = [frames EXCEPT ![f].pc = "run", ![f].graph = g]
               /\ log' = log
               /\ stack' = stack
          ELSE IF inner = Null
          THEN /\ frames' = [frames EXCEPT ![f].pc = "done", ![f].st = "err",
                                           ![f].err = "TypeError"]
               /\ log' = log
               /\ stack' = Base
          ELSE /\ frames' = [frames EXCEPT ![f].pc = "run", ![f].graph = g,
                                ![f].field = mappedConnector[1].field,
                                ![f].vect = inner]
               /\ log' = log
               /\ stack' = stack
    /\ UNCHANGED <<heap, cache, fetchCount, sinceClear, gens, vectorCache,
                   graph, fetchDefined, served, result, unhandled, ops,
                   nCalls, nClears>>

\* An execution that reports a missing template also for a vector that has
\* a linked graph.
ExecuteRunAlwaysError(f) ==
    /\ Cur(f)
    /\ frames[f].kind = "vexec"
    /\ frames[f].pc = "run"
    /\ LET fr == frames[f]
           h == Append(f, 5)
           error == [Event0 EXCEPT !.name = "error", !.fr = f,
                        !.vectorId = VId(fr.vect),
                        !.graphId = IF fr.graph = Null THEN "" ELSE GraphId(fr.graph),
                        !.field = fr.field,
                        !.message = "No template for set found"]
       IN IF Def(fr.vect).set # ""
          THEN /\ frames' = [frames EXCEPT ![f].pc = "afterSet", ![f].st = "wait",
                                           ![f].wait = h,
                                           ![f].cache =
                                               Ensured(vectorCache, VId(fr.vect))[VId(fr.vect)],
                                           ![f].data = heap[fr.vect].data,
                                           ![f].properties = heap[fr.vect].properties]
                    @@ (h :> [Frame0 EXCEPT !.kind = "handler", !.pc = "set",
                                 !.graph = fr.graph, !.vector = fr.vector,
                                 !.vect = fr.vect, !.field = fr.field,
                                 !.value = fr.value, !.idx = 1, !.own = f,
                                 !.chain = fr.chain])
               /\ log' = log
               /\ stack' = <<h>> \o Base
          ELSE /\ frames' = [frames EXCEPT ![f].pc = "done", ![f].st = "ok"]
               /\ log' = Emit(log, fr.chain, <<error>>)
               /\ stack' = Base
    /\ vectorCache' = Ensured(vectorCache, VId(frames[f].vect))
    /\ UNCHANGED <<heap, cache, fetchCount, sinceClear, gens, graph,
                   fetchDefined, served, result, unhandled, ops, nCalls,
                   nClears>>

\* execute that gives the vector a new cache object on every execution.
ExecuteRunRenews(f) ==
    /\ Cur(f)
    /\ frames[f].kind = "vexec"
    /\ frames[f].pc = "run"
    /\ LET fr == frames[f]
           h == Append(f, 5)
           error == [Event0 EXCEPT !.name = "error", !.fr = f,
                        !.vectorId = VId(fr.vect),
                        !.graphId = IF fr.graph = Null THEN "" ELSE GraphId(fr.graph),
                        !.field = fr.field,
                        !.message = "No template for set found"]
       IN IF Def(fr.vect).set # ""
          THEN /\ frames' = [frames EXCEPT ![f].pc = "afterSet", ![f].st = "wait",
                                           ![f].wait = h,
                                           ![f].cache =
                                               Renewed(vectorCache, VId(fr.vect))[VId(fr.vect)],
                                           ![f].data = heap[fr.vect].data,
                                           ![f].properties = heap[fr.vect].properties]
                    @@ (h :> [Frame0 EXCEPT !.kind = "handler", !.pc = "set",
                                 !.graph = fr.graph, !.vector = fr.vector,
                                 !.vect = fr.vect, !.field = fr.field,
                                 !.value = fr.value, !.idx = 1, !.own = f,
                                 !.chain = fr.chain])
               /\ log' = log
               /\ stack' = <<h>> \o Base
          ELSE /\ frames' = [frames EXCEPT ![f].pc = "done", ![f].st = "ok"]
               /\ log' = IF Def(fr.vect).linkedGraph.has THEN log
                         ELSE Emit(log, fr.chain, <<error>>)
               /\ stack' = Base
    /\ vectorCache' = Ensured(vectorCache, VId(frames[f].vect))
    /\ UNCHANGED <<heap, cache, fetchCount, sinceClear, gens, graph,
                   fetchDefined, served, result, unhandled, ops, nCalls,
                   nClears>>

\* Create vectorCache[vect.id]; with a template call parseAndRun and await
\* it; without one, an error unless the vector has a linked graph.
ExecuteRun(f) ==
    /\ Cur(f)
    /\ frames[f].kind = "vexec"
    /\ frames[f].pc = "run"
    /\ LET fr == frames[f]
           h == Append(f, 5)
           error == [Event0 EXCEPT !.name = "error", !.fr = f,
                        !.vectorId = VId(fr.vect),
                        !.graphId = IF fr.graph = Null THEN "" ELSE GraphId(fr.graph),
                        !.field = fr.field,
                        !.message = "No template for set found"]
       IN IF Def(fr.vect).set # ""
          THEN /\ frames' = [frames EXCEPT ![f].pc = "afterSet", ![f].st = "wait",
                                           ![f].wait = h,
                                           ![f].cache =
                                               Ensured(vectorCache, VId(fr.vect))[VId(fr.vect)],
                                           ![f].data = heap[fr.vect].data,
                                           ![f].properties = heap[fr.vect].properties]
                    @@ (h :> [Frame0 EXCEPT !.kind = "handler", !.pc = "set",
                                 !.graph = fr.graph, !.vector = fr.vector,
                                 !.vect = fr.vect, !.field = fr.field,
                                 !.value = fr.value, !.idx = 1, !.own = f,
                                 !.chain = fr.chain])
               /\ log' = log
               /\ stack' = <<h>> \o Base
          ELSE /\ frames' = [frames EXCEPT ![f].pc = "done", ![f].st = "ok"]
               /\ log' = IF Def(fr.vect).linkedGraph.has THEN log
                         ELSE Emit(log, fr.chain, <<error>>)
               /\ stack' = Base
    /\ vectorCache' = Ensured(vectorCache, VId(frames[f].vect))
    /\ UNCHANGED <<heap, cache, fetchCount, sinceClear, gens, graph,
                   fetchDefined, served, result, unhandled, ops, nCalls,
                   nClears>>

\* The end of execute without the error event of a handler that threw.
ExecuteAfterSetNoError(f) ==
    /\ Cur(f)
    /\ frames[f].kind = "vexec"
    /\ frames[f].pc = "afterSet"
    /\ LET fr == frames[f]
           h == frames[fr.wait]
           error == [Event0 EXCEPT !.name = "error", !.fr = f,
                        !.vectorId = VId(fr.vect),
                        !.graphId = IF fr.graph = Null THEN "" ELSE GraphId(fr.graph),
                        !.field = fr.field, !.message = h.err, !.err = h.err]
           afterSet == [Event0 EXCEPT !.name = "afterSet", !.fr = f,
                           !.vectorId = VId(fr.vect), !.field = fr.field,
                           !.value = fr.value, !.err = h.err,
                           !.cache = fr.cache, !.state = SchedulerState,
                           !.data = fr.data, !.properties = fr.properties]
       IN /\ frames' = Collect([frames EXCEPT ![f].pc = "done", ![f].st = "ok"])
          /\ log' = Emit(log, fr.chain,
                         <<afterSet>>)
    /\ stack' = Base
    /\ UNCHANGED <<heap, cache, fetchCount, sinceClear, gens, vectorCache,
                   graph, fetchDefined, served, result, unhandled, ops,
                   nCalls, nClears>>

\* After `await parseAndRun(...)`: a throw is an error event; afterSet
\* carries the error, if any; the execution completes.
ExecuteAfterSet(f) ==
    /\ Cur(f)
    /\ frames[f].kind = "vexec"
    /\ frames[f].pc = "afterSet"
    /\ LET fr == frames[f]
           h == frames[fr.wait]
           error == [Event0 EXCEPT !.name = "error", !.fr = f,
                        !.vectorId = VId(fr.vect),
                        !.graphId = IF fr.graph = Null THEN "" ELSE GraphId(fr.graph),
                        !.field = fr.field, !.message = h.err, !.err = h.err]
           afterSet == [Event0 EXCEPT !.name = "afterSet", !.fr = f,
                           !.vectorId = VId(fr.vect), !.field = fr.field,
                           !.value = fr.value, !.err = h.err,
                           !.cache = fr.cache, !.state = SchedulerState,
                           !.data = fr.data, !.properties = fr.properties]
       IN /\ frames' = Collect([frames EXCEPT ![f].pc = "done", ![f].st = "ok"])
          /\ log' = Emit(log, fr.chain,
                         IF h.st = "err" THEN <<error, afterSet>> ELSE <<afterSet>>)
    /\ stack' = Base
    /\ UNCHANGED <<heap, cache, fetchCount, sinceClear, gens, vectorCache,
                   graph, fetchDefined, served, result, unhandled, ops,
                   nCalls, nClears>>


(***************************************************************************)
(* Vector.parseAndRun and the compiled handler                             *)
(***************************************************************************)
\* parseAndRun that calls the compiled function without dispatching set.
ParseAndRunNoSet(f) ==
    /\ Cur(f)
    /\ frames[f].kind = "handler"
    /\ frames[f].pc = "set"
    /\ frames' = [frames EXCEPT ![f].pc = "body"]
    /\ UNCHANGED <<stack, log, heap, cache, fetchCount, sinceClear, gens,
                   vectorCache, graph, fetchDefined, served, result, unhandled,
                   ops, nCalls, nClears>>

\* Dispatch set, whose listeners may call setContext, then call the
\* compiled function with vectorInterface.context as this.
ParseAndRun(f) ==
    /\ Cur(f)
    /\ frames[f].kind = "handler"
    /\ frames[f].pc = "set"
    /\ LET fr == frames[f]
           set == [Event0 EXCEPT !.name = "set", !.fr = f,
                      !.vectorId = VId(fr.vect), !.graphId = fr.vect[1],
                      !.field = fr.field, !.value = fr.value,
                      !.context = ContextAfter(Registered("set"))]
       IN /\ frames' = [frames EXCEPT ![f].pc = "body"]
          /\ log' = Emit(log, fr.chain, <<set>>)
    /\ UNCHANGED <<stack, heap, cache, fetchCount, sinceClear, gens,
                   vectorCache, graph, fetchDefined, served, result,
                   unhandled, ops, nCalls, nClears>>

HasEdge(v, field) == \E i \in 1..Len(heap[v].edges) : heap[v].edges[i].field = field

\* One step of the handler body: return, call console.info, write an edge
\* (which calls the edge setter and goes on without awaiting it), await a
\* timer, or throw.  The setter first logs that it was invoked.
Handler(f) ==
    /\ Cur(f)
    /\ frames[f].kind = "handler"
    /\ frames[f].pc = "body"
    /\ LET fr == frames[f]
           steps == Compile(Def(fr.vect).set)
           s == Append(f, 10 + fr.idx)
           info == [Event0 EXCEPT !.name = "console.info", !.fr = f,
                       !.vectorId = VId(fr.vect), !.value = fr.value]
           invoked == [Event0 EXCEPT !.name = "debug", !.fr = s, !.obj = fr.vect,
                          !.vectorId = VId(fr.vect),
                          !.graphId = GraphId(frames[fr.own].graph),
                          !.field = steps[fr.idx].field, !.value = fr.value,
                          !.message = "Edge setter invoked"]
       IN IF fr.idx > Len(steps)
          THEN /\ frames' = [frames EXCEPT ![f].pc = "done", ![f].st = "ok"]
               /\ log' = log
               /\ stack' = Base
          ELSE IF steps[fr.idx].op = "throw"
          THEN /\ frames' = [frames EXCEPT ![f].pc = "done", ![f].st = "err",
                                ![f].err = "ReferenceError: x is not defined"]
               /\ log' = log
               /\ stack' = Base
          ELSE IF steps[fr.idx].op = "await"
          THEN /\ frames' = [frames EXCEPT ![f].pc = "timer", ![f].st = "wait"]
               /\ log' = log
               /\ stack' = Base
          ELSE IF steps[fr.idx].op = "info"
          THEN /\ frames' = [frames EXCEPT ![f].idx = @ + 1]
               /\ log' = Emit(log, fr.chain, <<info>>)
               /\ stack' = stack
          ELSE IF HasEdge(fr.vect, steps[fr.idx].field)
          THEN /\ frames' = [frames EXCEPT ![f].idx = @ + 1]
                    @@ (s :> [Frame0 EXCEPT !.kind = "setter", !.pc = "loop",
                                 !.vect = fr.vect, !.edge = steps[fr.idx].field,
                                 !.value = fr.value, !.idx = 1, !.own = fr.own,
                                 !.chain = s, !.born = Len(log[fr.chain])])
               /\ log' = log @@ (s :> <<invoked>>)
               /\ stack' = <<s>> \o stack
          ELSE /\ frames' = [frames EXCEPT ![f].idx = @ + 1]
               /\ log' = log
               /\ stack' = stack
    /\ UNCHANGED <<heap, cache, fetchCount, sinceClear, gens, vectorCache,
                   graph, fetchDefined, served, result, unhandled, ops,
                   nCalls, nClears>>

\* The awaited timer fires and the handler goes on.
Timer(f) ==
    /\ stack = <<>>
    /\ queue = <<>>
    /\ frames[f].kind = "handler"
    /\ frames[f].pc = "timer"
    /\ frames' = [frames EXCEPT ![f].pc = "body", ![f].st = "run", ![f].idx = @ + 1]
    /\ stack' = <<f>>
    /\ UNCHANGED <<log, heap, cache, fetchCount, sinceClear, gens,
                   vectorCache, graph, fetchDefined, served, result,
                   unhandled, ops, nCalls, nClears>>

(***************************************************************************)
(* The edge setter of Vector.execute                                       *)
(***************************************************************************)
\* edge.connectors of the edge the setter was defined for.
EdgeConnectorsReversed(v, field) ==
    LET es == heap[v].edges
        cs == es[CHOOSE i \in 1..Len(es) : es[i].field = field].connectors
    IN [i \in 1..Len(cs) |-> cs[Len(cs) + 1 - i]]

EdgeConnectors(v, field) ==
    LET es == heap[v].edges
    IN es[CHOOSE i \in 1..Len(es) : es[i].field = field].connectors

\* connector.graphId !== graph.id || connector.version !== graph.version
CrossGraphAlways(connector, g) == TRUE

CrossGraph(connector, g) ==
    connector.graphId # GraphId(g) \/ connector.version # GraphVersion(g)

\* The catch of the setter: dispatch error "Edge setter error"; building
\* the event reads graph.id, which throws again when graph is missing.
SetterCatch(f, g) ==
    LET fr == frames[f]
        error == [Event0 EXCEPT !.name = "error", !.fr = f,
                     !.vectorId = VId(fr.vect),
                     !.graphId = IF g = Null THEN "" ELSE GraphId(g),
                     !.field = fr.edge, !.message = "Edge setter error"]
    IN IF g = Null
       THEN /\ frames' = Collect([frames EXCEPT ![f].pc = "done", ![f].st = "err",
                                                ![f].err = "TypeError"])
            /\ log' = log
            /\ unhandled' = unhandled \cup {f}
       ELSE /\ frames' = Collect([frames EXCEPT ![f].pc = "done", ![f].st = "ok"])
            /\ log' = Emit(log, fr.chain, <<error>>)
            /\ unhandled' = unhandled

\* for (const connector of edge.connectors): the next connector; a
\* connector of another graph (id or version) loads that graph first.
Setter(f) ==
    /\ Cur(f)
    /\ frames[f].kind = "setter"
    /\ frames[f].pc = "loop"
    /\ LET fr == frames[f]
           connectors == EdgeConnectors(fr.vect, fr.edge)
           connector == Connectors[connectors[fr.idx]]
           g == frames[fr.own].graph
           l == Append(f, 20 + fr.idx)
       IN IF fr.idx > Len(connectors)
          THEN /\ frames' = Collect([frames EXCEPT ![f].pc = "done", ![f].st = "ok"])
               /\ log' = log
               /\ stack' = Base
               /\ unhandled' = unhandled
          ELSE IF g = Null
          THEN /\ SetterCatch(f, g)
               /\ stack' = Base
          ELSE IF CrossGraph(connector, g)
          THEN /\ frames' = [frames EXCEPT ![f].pc = "loaded", ![f].st = "wait",
                                           ![f].wait = l]
                    @@ (l :> LoadFrame("graph",
                                getGraphPath(connector.graphId, connector.version), f))
               /\ log' = log
               /\ stack' = <<l>> \o Base
               /\ unhandled' = unhandled
          ELSE /\ frames' = [frames EXCEPT ![f].pc = "find"]
               /\ log' = log
               /\ stack' = stack
               /\ unhandled' = unhandled
    /\ UNCHANGED <<heap, cache, fetchCount, sinceClear, gens, vectorCache,
                   graph, fetchDefined, served, result, ops, nCalls, nClears>>

\* graph = await scheduler.graphLoader.load(...)
SetterLoaded(f) ==
    /\ Cur(f)
    /\ frames[f].kind = "setter"
    /\ frames[f].pc = "loaded"
    /\ LET fr == frames[f]
           l == frames[fr.wait]
       IN IF l.st = "err"
          THEN /\ SetterCatch(f, frames[fr.own].graph)
               /\ stack' = Base
          ELSE /\ frames' = Collect([frames EXCEPT ![f].pc = "find", ![f].st = "run",
                                                   ![fr.own].graph = l.ret])
               /\ log' = log
               /\ stack' = <<f>> \o Base
               /\ unhandled' = unhandled
    /\ UNCHANGED <<heap, cache, fetchCount, sinceClear, gens, vectorCache,
                   graph, fetchDefined, served, result, ops, nCalls, nClears>>

\* A setter that calls the edge executor of a connector and goes on with
\* the next connector without awaiting it.
SetterConnectorNoAwait(f) ==
    /\ Cur(f)
    /\ frames[f].kind = "setter"
    /\ frames[f].pc = "find"
    /\ LET fr == frames[f]
           connector == Connectors[EdgeConnectors(fr.vect, fr.edge)[fr.idx]]
           g == frames[fr.own].graph
           vectorNext == FindById(g, connector.vectorId)
           e == Append(f, 40 + fr.idx)
           beginconnector == [Event0 EXCEPT !.name = "beginconnector", !.fr = f,
                                 !.connector = connector.id, !.value = fr.value]
       IN /\ g # Null
          /\ IF vectorNext # Null
             THEN /\ frames' = [frames EXCEPT ![f].pc = "loop", ![f].idx = @ + 1]
                       @@ (e :> [Frame0 EXCEPT !.kind = "edge", !.pc = "begin",
                                    !.graph = g, !.vector = vectorNext,
                                    !.field = connector.field, !.value = fr.value,
                                    !.chain = fr.chain])
                  /\ log' = Emit(log, fr.chain, <<beginconnector>>)
                  /\ stack' = <<e>> \o stack
             ELSE /\ frames' = [frames EXCEPT ![f].pc = "loop", ![f].idx = @ + 1]
                  /\ log' = log
                  /\ stack' = stack
    /\ UNCHANGED <<heap, cache, fetchCount, sinceClear, gens, vectorCache,
                   graph, fetchDefined, served, result, unhandled, ops, nCalls,
                   nClears>>

\* A setter that gives up the fan-out at a connector without a target.
SetterConnectorStops(f) ==
    /\ Cur(f)
    /\ frames[f].kind = "setter"
    /\ frames[f].pc = "find"
    /\ LET fr == frames[f]
           connector == Connectors[EdgeConnectors(fr.vect, fr.edge)[fr.idx]]
           g == frames[fr.own].graph
           vectorNext == FindById(g, connector.vectorId)
           e == Append(f, 40 + fr.idx)
           beginconnector == [Event0 EXCEPT !.name = "beginconnector", !.fr = f,
                                 !.connector = connector.id, !.value = fr.value]
           error == [Event0 EXCEPT !.name = "error", !.fr = f,
                        !.vectorId = VId(fr.vect), !.graphId = GraphId(g),
                        !.field = fr.edge, !.connector = connector.id,
                        !.message = "Connector refers to a vector edge that does not exist"]
       IN IF g = Null
          THEN /\ SetterCatch(f, g)
               /\ stack' = Base
          ELSE IF vectorNext # Null
          THEN /\ frames' = [frames EXCEPT ![f].pc = "endconnector", ![f].st = "wait",
                                           ![f].wait = e]
                    @@ (e :> [Frame0 EXCEPT !.kind = "edge", !.pc = "begin",
                                 !.graph = g, !.vector = vectorNext,
                                 !.field = connector.field, !.value = fr.value,
                                 !.chain = fr.chain])
               /\ log' = Emit(log, fr.chain, <<beginconnector>>)
               /\ stack' = <<e>> \o Base
               /\ unhandled' = unhandled
          ELSE /\ frames' = Collect([frames EXCEPT ![f].pc = "done", ![f].st = "ok"])
               /\ log' = Emit(log, fr.chain, <<error>>)
               /\ stack' = Base
               /\ unhandled' = unhandled
    /\ UNCHANGED <<heap, cache, fetchCount, sinceClear, gens, vectorCache,
                   graph, fetchDefined, served, result, ops, nCalls, nClears>>

\* Find the target vector: dispatch beginconnector and call the edge
\* executor, or dispatch an error for a connector without a target and go
\* on with the next connector.
SetterConnector(f) ==
    /\ Cur(f)
    /\ frames[f].kind = "setter"
    /\ frames[f].pc = "find"
    /\ LET fr == frames[f]
           connector == Connectors[EdgeConnectors(fr.vect, fr.edge)[fr.idx]]
           g == frames[fr.own].graph
           vectorNext == FindById(g, connector.vectorId)
           e == Append(f, 40 + fr.idx)
           beginconnector == [Event0 EXCEPT !.name = "beginconnector", !.fr = f,
                                 !.connector = connector.id, !.value = fr.value]
           error == [Event0 EXCEPT !.name = "error", !.fr = f,
                        !.vectorId = VId(fr.vect), !.graphId = GraphId(g),
                        !.field = fr.edge, !.connector = connector.id,
                        !.message = "Connector refers to a vector edge that does not exist"]
       IN IF g = Null
          THEN /\ SetterCatch(f, g)
               /\ stack' = Base
          ELSE IF vectorNext # Null
          THEN /\ frames' = [frames EXCEPT ![f].pc = "endconnector", ![f].st = "wait",
                                           ![f].wait = e]
                    @@ (e :> [Frame0 EXCEPT !.kind = "edge", !.pc = "begin",
                                 !.graph = g, !.vector = vectorNext,
                                 !.field = connector.field, !.value = fr.value,
                                 !.chain = fr.chain])
               /\ log' = Emit(log, fr.chain, <<beginconnector>>)
               /\ stack' = <<e>> \o Base
               /\ unhandled' = unhandled
          ELSE /\ frames' = [frames EXCEPT ![f].pc = "loop", ![f].idx = @ + 1]
               /\ log' = Emit(log, fr.chain, <<error>>)
               /\ stack' = stack
               /\ unhandled' = unhandled
    /\ UNCHANGED <<heap, cache, fetchCount, sinceClear, gens, vectorCache,
                   graph, fetchDefined, served, result, ops, nCalls, nClears>>

\* After `await edgeExecute(...)` the setter goes on without dispatching endconnector.
SetterEndConnectorSilent(f) ==
    /\ Cur(f)
    /\ frames[f].kind = "setter"
    /\ frames[f].pc = "endconnector"
    /\ LET fr == frames[f]
           connector == Connectors[EdgeConnectors(fr.vect, fr.edge)[fr.idx]]
           endconnector == [Event0 EXCEPT !.name = "endconnector", !.fr = f,
                               !.connector = connector.id, !.value = fr.value]
       IN IF frames[fr.wait].st = "err"
          THEN /\ SetterCatch(f, frames[fr.own].graph)
               /\ stack' = Base
          ELSE /\ frames' = Collect([frames EXCEPT ![f].pc = "loop", ![f].st = "run",
                                                   ![f].idx = @ + 1])
               /\ log' = log
               /\ stack' = <<f>> \o Base
               /\ unhandled' = unhandled
    /\ UNCHANGED <<heap, cache, fetchCount, sinceClear, gens, vectorCache,
                   graph, fetchDefined, served, result, ops, nCalls, nClears>>

\* After `await edgeExecute(...)`: dispatch endconnector and go on; a
\* rejection is thrown into the catch of the setter.
SetterEndConnector(f) ==
    /\ Cur(f)
    /\ frames[f].kind = "setter"
    /\ frames[f].pc = "endconnector"
    /\ LET fr == frames[f]
           connector == Connectors[EdgeConnectors(fr.vect, fr.edge)[fr.idx]]
           endconnector == [Event0 EXCEPT !.name = "endconnector", !.fr = f,
                               !.connector = connector.id, !.value = fr.value]
       IN IF frames[fr.wait].st = "err"
          THEN /\ SetterCatch(f, frames[fr.own].graph)
               /\ stack' = Base
          ELSE /\ frames' = Collect([frames EXCEPT ![f].pc = "loop", ![f].st = "run",
                                                   ![f].idx = @ + 1])
               /\ log' = Emit(log, fr.chain, <<endconnector>>)
               /\ stack' = <<f>> \o Base
               /\ unhandled' = unhandled
    /\ UNCHANGED <<heap, cache, fetchCount, sinceClear, gens, vectorCache,
                   graph, fetchDefined, served, result, ops, nCalls, nClears>>

(***************************************************************************)
(* The system                                                              *)
(***************************************************************************)
\* Every step leaves the microtask queue updated.
Step(A) ==
    /\ A
    /\ queue' = Enqueue(queue, frames')
    /\ UNCHANGED <<events, nListens, nRemoves, listened, dispatching, overlap>>

(***************************************************************************)
(* Scheduler.addEventListener and Scheduler.removeEventListener            *)
(***************************************************************************)
\* this.events[eventName].indexOf(listener), counting from 1; 0 if absent.
IndexOf(ls, l) ==
    IF \E i \in 1..Len(ls) : ls[i] = l
    THEN CHOOSE i \in 1..Len(ls) : ls[i] = l /\ \A j \in 1..(i - 1) : ls[j] # l
    ELSE 0

\* ls.splice(idx, 1)
Splice(ls, idx) == SubSeq(ls, 1, idx - 1) \o SubSeq(ls, idx + 1, Len(ls))

\* addEventListener: create the entry if there is none, push the listener.
\* Listeners are managed between traversals, while a url() call is still
\* to come.
AddEventListener(name, l) ==
    /\ stack = <<>>
    /\ frames = <<>>
    /\ dispatching = Null
    /\ nListens < MaxListens
    /\ nCalls < MaxCalls
    /\ events' = IF name \in DOMAIN events
                 THEN [events EXCEPT ![name] = Append(@, l)]
                 ELSE events @@ (name :> <<l>>)
    /\ nListens' = nListens + 1
    /\ listened' = [listened EXCEPT ![<<name, l>>] = Append(@, "add")]
    /\ UNCHANGED <<frames, stack, queue, log, heap, cache, fetchCount,
                   sinceClear, gens, vectorCache, graph, fetchDefined, served,
                   result, unhandled, ops, nCalls, nClears, nRemoves,
                   dispatching, overlap>>

\* removeEventListener without the test of indexOf: splice(-1, 1) takes out the
\* last listener of the entry.
RemoveEventListenerNoCheck(name, l) ==
    /\ stack = <<>>
    /\ frames = <<>>
    /\ nRemoves < MaxRemoves
    /\ nCalls < MaxCalls
    /\ events' = IF name \notin DOMAIN events THEN events
                 ELSE IF IndexOf(events[name], l) = 0
                 THEN [events EXCEPT ![name] = SubSeq(@, 1, Len(@) - 1)]
                 ELSE [events EXCEPT ![name] = Splice(@, IndexOf(events[name], l))]
    /\ nRemoves' = nRemoves + 1
    /\ listened' = [listened EXCEPT ![<<name, l>>] = Append(@, "remove")]
    /\ UNCHANGED <<frames, stack, queue, log, heap, cache, fetchCount,
                   sinceClear, gens, vectorCache, graph, fetchDefined, served,
                   result, unhandled, ops, nCalls, nClears, nListens,
                   dispatching, overlap>>

\* removeEventListener: return when there is no entry for the name or
\* the listener is not in it, else splice it out.
RemoveEventListener(name, l) ==
    /\ stack = <<>>
    /\ frames = <<>>
    /\ nRemoves < MaxRemoves
    /\ nCalls < MaxCalls
    /\ events' = IF name \notin DOMAIN events THEN events
                 ELSE IF IndexOf(events[name], l) = 0 THEN events
                 ELSE [events EXCEPT ![name] = Splice(@, IndexOf(events[name], l))]
    /\ nRemoves' = nRemoves + 1
    /\ listened' = [listened EXCEPT ![<<name, l>>] = Append(@, "remove")]
    /\ UNCHANGED <<frames, stack, queue, log, heap, cache, fetchCount,
                   sinceClear, gens, vectorCache, graph, fetchDefined, served,
                   result, unhandled, ops, nCalls, nClears, nListens,
                   dispatching, overlap>>

Next ==
    \/ \E p \in Patterns, v \in Values, fld \in Fields : Step(Url(p, v, fld))
    \/ \E loader \in {"graph", "vector"} : Step(ClearCache(loader))
    \/ \E f \in DOMAIN frames : Step(UrlEnd(f))
    \/ \E f \in DOMAIN frames : Step(EdgeExecute(f))
    \/ \E f \in DOMAIN frames : Step(EdgeExecuteEnd(f))
    \/ \E f \in DOMAIN frames : Step(Load(f))
    \/ \E f \in DOMAIN frames : Step(Fetched(f))
    \/ \E f \in DOMAIN frames : Step(ExecuteLinkedVector(f))
    \/ \E f \in DOMAIN frames : Step(ExecuteLinkedVectorLoaded(f))
    \/ \E f \in DOMAIN frames : Step(ExecuteLinkedGraph(f))
    \/ \E f \in DOMAIN frames : Step(ExecuteLinkedGraphLoaded(f))
    \/ \E f \in DOMAIN frames : Step(ExecuteRemap(f))
    \/ \E f \in DOMAIN frames : Step(ExecuteRun(f))
    \/ \E f \in DOMAIN frames : Step(ExecuteAfterSet(f))
    \/ \E f \in DOMAIN frames : Step(ParseAndRun(f))
    \/ \E f \in DOMAIN frames : Step(Handler(f))
    \/ \E f \in DOMAIN frames : Step(Timer(f))
    \/ \E f \in DOMAIN frames : Step(Setter(f))
    \/ \E f \in DOMAIN frames : Step(SetterLoaded(f))
    \/ \E f \in DOMAIN frames : Step(SetterConnector(f))
    \/ \E f \in DOMAIN frames : Step(SetterEndConnector(f))

Spec == Init /\ [][Next]_vars

\* The scheduler with an embedding program that registers listeners.
NextL ==
    \/ Next
    \/ \E r \in Registrations : AddEventListener(r[1], r[2])
    \/ \E r \in Removals : RemoveEventListener(r[1], r[2])

SpecL == InitL /\ [][NextL]_vars

SpecN == InitN /\ [][Next]_vars

\* The scheduler with the edge executor of src/unnamed/part_003.
NextR ==
    \/ \E p \in Patterns, v \in Values, fld \in Fields : Step(Url(p, v, fld))
    \/ \E loader \in {"graph", "vector"} : Step(ClearCache(loader))
    \/ \E f \in DOMAIN frames : Step(UrlEnd(f))
    \/ \E f \in DOMAIN frames : Step(EdgeExecute(f))
    \/ \E f \in DOMAIN frames : Step(EdgeExecuteEndRejects(f))
    \/ \E f \in DOMAIN frames : Step(Load(f))
    \/ \E f \in DOMAIN frames : Step(Fetched(f))
    \/ \E f \in DOMAIN frames : Step(ExecuteLinkedVector(f))
    \/ \E f \in DOMAIN frames : Step(ExecuteLinkedVectorLoaded(f))
    \/ \E f \in DOMAIN frames : Step(ExecuteLinkedGraph(f))
    \/ \E f \in DOMAIN frames : Step(ExecuteLinkedGraphLoaded(f))
    \/ \E f \in DOMAIN frames : Step(ExecuteRemap(f))
    \/ \E f \in DOMAIN frames : Step(ExecuteRun(f))
    \/ \E f \in DOMAIN frames : Step(ExecuteAfterSet(f))
    \/ \E f \in DOMAIN frames : Step(ParseAndRun(f))
    \/ \E f \in DOMAIN frames : Step(Handler(f))
    \/ \E f \in DOMAIN frames : Step(Timer(f))
    \/ \E f \in DOMAIN frames : Step(Setter(f))
    \/ \E f \in DOMAIN frames : Step(SetterLoaded(f))
    \/ \E f \in DOMAIN frames : Step(SetterConnector(f))
    \/ \E f \in DOMAIN frames : Step(SetterEndConnector(f))

SpecR == InitR /\ [][NextR]_vars

(***************************************************************************)
(* Observations on the dispatched events.                                  *)
(***************************************************************************)
\* The url() calls made so far and the edge writes they caused.
Calls == {c \in DOMAIN log : Len(c) = 1}

Writes == DOMAIN log \ Calls

IsPrefix(s, t) == Len(s) <= Len(t) /\ SubSeq(t, 1, Len(s)) = s

Names(l) == [i \in 1..Len(l) |-> l[i].name]

Only(l, names) == SelectSeq(l, LAMBDA e : e.name \in names)

\* fr is an activation started directly by chain root s.
DirectChild(s, fr) == Len(fr) = Len(s) + 1 /\ SubSeq(fr, 1, Len(s)) = s

\* The connectors of the edge that write s assigned to, as declared.
Declared(s) ==
    LET w == log[s][1]
        es == heap[w.obj].edges
    IN es[CHOOSE i \in 1..Len(es) : es[i].field = w.field].connectors

HasTarget(cid) ==
    Connectors[cid].vectorId \in Range(Artifacts[Connectors[cid].graphId].vectors)

\* What write s owes: the value at each connector that has a target.
Expected(s) ==
    LET cs == SelectSeq(Declared(s), HasTarget)
    IN [i \in 1..Len(cs) |->
          [vectorId |-> Connectors[cs[i]].vectorId,
           field |-> Connectors[cs[i]].field, value |-> log[s][1].value]]

\* The invocations write s has started, in the order of their beginedge.
Delivered(s) ==
    LET es == SelectSeq(log[s], LAMBDA e : e.name = "beginedge" /\ DirectChild(s, e.fr))
    IN [i \in 1..Len(es) |->
          [vectorId |-> es[i].vectorId, field |-> es[i].field, value |-> es[i].value]]

WriteDone(s) == s \notin DOMAIN frames

\* Every graph a connector of write s refers to can be had: all of them
\* are the graph the write starts in, or the host serves each of them.
Loadable(s) ==
    LET cs == Declared(s)
    IN \/ \A i \in 1..Len(cs) : Connectors[cs[i]].graphId = log[s][1].graphId
       \/ fetchDefined /\ \A i \in 1..Len(cs) : Connectors[cs[i]].graphId \in served

BasePath == getGraphPath(GraphId(graph), GraphVersion(graph))

G1Path == getGraphPath("g1", 0)

Six == <<"begin", "beginedge", "set", "afterSet", "endedge", "end">>

\* Nothing runs, nothing is queued, and the host owes no response or timer.
Quiescent ==
    /\ stack = <<>>
    /\ queue = <<>>
    /\ \A f \in DOMAIN frames : frames[f].pc \notin {"fetching", "timer"}

\* Call a settled, then op happened, then call b was made.
Between(a, op, b) ==
    \E i, j, k \in DOMAIN ops :
        /\ i < j /\ j < k
        /\ ops[i] = Op("settled", a, "")
        /\ ops[j] = op
        /\ ops[k] = Op("url", b, "")

Before(a, b) ==
    \E i, k \in DOMAIN ops :
        i < k /\ ops[i] = Op("settled", a, "") /\ ops[k] = Op("url", b, "")

C2_Original ==
    /\ \A c \in DOMAIN result : result[c] = "ok"
    /\ unhandled = {}

\* The part of C2 that holds: the promise returned by url() never rejects.
C2_UrlNeverRejects == \A c \in DOMAIN result : result[c] = "ok"

C5_Original ==
    (fetchDefined /\ served = Everything) => \A u \in Urls : sinceClear[u] <= 1

(***************************************************************************)
(* C6.  clearCache() and the linked graph.                                 *)
(***************************************************************************)
\* C6 as stated: when a call that traversed the vector with a linked graph
\* has settled, graphLoader.clearCache() is called, and the same url() is
\* called again and settles, the linked graph has been fetched twice.
C6_Original ==
    \A a, b \in DOMAIN result :
        ( /\ fetchDefined /\ served = Everything
          /\ log[a][1].url = log[b][1].url
          /\ FindByUrl(graph, log[a][1].url) # Null
          /\ Def(FindByUrl(graph, log[a][1].url)).linkedGraph.has
          /\ Between(a, Op("clearCache", Null, "graph"), b) )
        => fetchCount[G1Path] = 2

(***************************************************************************)
(* C7.  The scheduler stays usable after errors.                           *)
(***************************************************************************)
Healthy(v) ==
    /\ v # Null
    /\ Def(v).set = "console.info(value);"
    /\ ~Def(v).linkedVector.has
    /\ ~Def(v).linkedGraph.has

Seven ==
    <<"begin", "beginedge", "set", "console.info", "afterSet", "endedge", "end">>

\* C7: whatever went before, a url() call that matches a healthy vector
\* dispatches begin, beginedge, set, afterSet, endedge and end in this
\* order and no error or warning, runs the handler with the value of the
\* call, resolves, and cannot be left unsettled with nothing to run.
C7_Usable ==
    \A c \in Calls :
        LET v == FindByUrl(graph, log[c][1].url)
            l == Only(log[c], Range(Seven) \cup {"error", "warning"})
        IN Healthy(v) =>
              /\ IsPrefix(Names(l), Seven)
              /\ \A i \in 2..Len(l) :
                    l[i].name # "end" => l[i].vectorId = VId(v) /\ l[i].value = c[1]
              /\ c \in DOMAIN result => result[c] = "ok" /\ Names(l) = Seven
              /\ Quiescent => c \in DOMAIN result

\* A call whose fan-out met a dangling connector and a throwing handler
\* settled; a later call on the healthy vector settled too.
C7_Witness ==
    \E a, b \in DOMAIN result :
        /\ Before(a, b)
        /\ Healthy(FindByUrl(graph, log[b][1].url))
        /\ \E s \in Writes :
              /\ s[1] = a[1]
              /\ \E i \in 1..Len(log[s]) :
                    log[s][i].name = "error" /\ log[s][i].connector = "c2"
              /\ \E i \in 1..Len(log[s]) :
                    log[s][i].name = "error" /\ log[s][i].vectorId = "C"

C9_Monotonic ==
    [][\A r \in DOMAIN heap :
          /\ heap[r].lvLoaded => heap'[r].lvLoaded
          /\ heap[r].lgLoaded => heap'[r].lgLoaded]_vars

\* Both flags are set on vectors of the base graph, and after a call that
\* set one settled, clearCache() was called and another call made.
C9_Witness ==
    /\ graph = <<"g0", 0>>
    /\ heap[<<"g0", 0, "H">>].lgLoaded
    /\ heap[<<"g0", 0, "L">>].lvLoaded
    /\ \E a, b \in Calls, ld \in {"graph", "vector"} :
          Between(a, Op("clearCache", Null, ld), b)

(***************************************************************************)
(* C10.  linkedVector.loaded and linkedVector.vector.                      *)
(***************************************************************************)
\* C10: in every state, for every vector object, linkedVector.loaded is
\* true exactly when linkedVector.vector holds a loaded artifact.
C10_LoadedIffPresent ==
    \A r \in DOMAIN heap : heap[r].lvLoaded <=> heap[r].lvVector # Null

\* One execution found the linked vector missing and left loaded false;
\* in another state of the exploration it is loaded and present.
C10_Witness ==
    \E r \in DOMAIN heap :
        /\ Def(r).linkedVector.has
        /\ heap[r].lvLoaded
        /\ heap[r].lvVector \in DOMAIN heap

(***************************************************************************)
(* C11.  A loaded linked graph has been spliced.                           *)
(***************************************************************************)
NoDuplicates(s) == \A i, j \in 1..Len(s) : s[i] = s[j] => i = j

\* Host vector object h and its linked graph agree on output o: the inner
\* vector's edge with the output's field holds every connector of the
\* host's edge with that field, each connector id once.
SplicedOutput(h, o) ==
    LET g == heap[h].lgGraph
        V == <<g[1], g[2], o.id>>
    IN \A i \in 1..Len(heap[h].edges) :
          heap[h].edges[i].field = o.field =>
             (V \in DOMAIN heap =>
                \A k \in 1..Len(heap[V].edges) :
                   heap[V].edges[k].field = o.field =>
                      /\ Range(heap[h].edges[i].connectors)
                            \subseteq Range(heap[V].edges[k].connectors)
                      /\ NoDuplicates(heap[V].edges[k].connectors))

\* C11 as stated: in every reachable state, for every host vector whose
\* linkedGraph.loaded is true and every entry of its fields.outputs, the
\* inner vector's edge contains every connector of the matching host edge
\* and no connector id twice.
C11_Original ==
    \A h \in DOMAIN heap :
        (Len(h) = 3 /\ heap[h].lgLoaded) =>
            /\ heap[h].lgGraph # Null
            /\ \A n \in 1..Len(Def(h).linkedGraph.outputs) :
                  SplicedOutput(h, Def(h).linkedGraph.outputs[n])

(***************************************************************************)
(* C13.  A handler that throws.                                            *)
(***************************************************************************)
\* The positions of chain ch's events of one name that frame x dispatched.
At(ch, name, x) ==
    {i \in 1..Len(log[ch]) : log[ch][i].name = name /\ log[ch][i].fr = x}

Settled(x) == x \notin DOMAIN frames \/ frames[x].st \in {"ok", "err"}

\* The compiled handler of vector id throws, at once or after an await.
Throws(id) ==
    \E i \in 1..Len(Compile(VectorDefs[id].set)) :
        Compile(VectorDefs[id].set)[i].op = "throw"

Bracketed ==
    \A ch \in DOMAIN log :
        \A i \in 1..Len(log[ch]) :
            LET b == log[ch][i]
                ends == At(ch, "endedge", b.fr)
            IN b.name = "beginedge" =>
               /\ At(ch, "beginedge", b.fr) = {i}
               /\ Cardinality(ends) <= 1
               /\ Settled(b.fr) => Cardinality(ends) = 1
               /\ \A k \in ends :
                     /\ i < k
                     /\ log[ch][k].vectorId = b.vectorId
                     /\ log[ch][k].field = b.field
                     /\ log[ch][k].value = b.value
               /\ \A j \in At(ch, "error", b.fr) : j + 1 \in ends

\* The step in which an invocation settles dispatches its endedge, and
\* when the vector execution failed, an error event before it.
SettlesBracketed ==
    \A e \in DOMAIN frames :
        (frames[e].kind = "edge" /\ frames[e].pc = "then" /\ ~Settled(e)
         /\ (e \notin DOMAIN frames' \/ frames'[e].st \in {"ok", "err"})) =>
            LET ch == frames[e].chain
                added == SubSeq(log'[ch], Len(log[ch]) + 1, Len(log'[ch]))
                failed == frames[frames[e].wait].st = "err"
            IN /\ Names(added) = IF failed THEN <<"error", "endedge">>
                                 ELSE <<"endedge">>
               /\ \A n \in 1..Len(added) : added[n].fr = e

\* C14: every invocation, top-level or started by an edge write, is
\* bracketed: each beginedge is followed by exactly one endedge for the
\* same vector, field and value, whether the execution succeeded or
\* failed, and on failure an error event is dispatched as well.
C14_Bracketed == []Bracketed /\ [][SettlesBracketed]_vars

\* An invocation started by a url() call and one started by an edge write
\* have settled, one of them after its vector execution failed.
C14_Witness ==
    /\ \E ch \in Calls : \E i \in 1..Len(log[ch]) :
          /\ log[ch][i].name = "beginedge" /\ Settled(log[ch][i].fr)
          /\ At(ch, "error", log[ch][i].fr) # {}
    /\ \E ch \in Writes : \E i \in 1..Len(log[ch]) :
          log[ch][i].name = "beginedge" /\ Settled(log[ch][i].fr)

(***************************************************************************)
(* C15.  begin and end of a url() call.                                    *)
(***************************************************************************)
\* A step of the engine or of the host, as opposed to a call made by the
\* embedding program.
Engine == Next /\ nCalls' = nCalls /\ nClears' = nClears

\* The event loop runs every job that is ready, and the host delivers the
\* responses and timers it owes.
LiveSpec == Spec /\ WF_vars(Engine)

CallIds == {<<n>> : n \in 1..MaxCalls}

\* begin is the first event of every call made and is dispatched once;
\* end is dispatched at most once, and when the call has settled exactly
\* once, as its last event, behind the endedge of the top-level invocation
\* if there was one.
BeginEnd ==
    /\ \A i \in 1..Len(ops) : ops[i].op = "url" => ops[i].call \in Calls
    /\ \A c \in Calls :
          LET e == Append(c, 1)
          IN /\ At(c, "begin", c) = {1}
             /\ Cardinality(At(c, "end", c)) <= 1
             /\ c \in DOMAIN result =>
                   /\ At(c, "end", c) = {Len(log[c])}
                   /\ At(c, "beginedge", e) # {} => At(c, "endedge", e) # {}
                   /\ \A k \in At(c, "endedge", e) : k < Len(log[c])

PatternOf(c) == log[c][1].url

\* C16: a url() call whose pattern matches no vector of the graph
\* dispatches exactly begin, warning ("Cannot find vector at the specified
\* URL.") and end, in this order, when the pattern is not empty, and
\* exactly begin and end when it is empty; no handler runs, no edge is
\* written, and the promise resolves.
C16_UrlMiss ==
    \A c \in Calls :
        FindByUrl(graph, PatternOf(c)) = Null =>
            /\ Names(log[c]) = IF PatternOf(c) # <<>>
                               THEN <<"begin", "warning", "end">>
                               ELSE <<"begin", "end">>
            /\ \A i \in 1..Len(log[c]) :
                  log[c][i].name = "warning" =>
                     log[c][i].message = "Cannot find vector at the specified URL."
            /\ c \in DOMAIN result /\ result[c] = "ok"
            /\ \A f \in DOMAIN frames : f[1] # c[1]
            /\ \A s \in Writes : s[1] # c[1]

\* On a graph that has vectors, a call with a pattern that matches none
\* of them has been made after a call that matched one.
C16_Witness ==
    /\ graph = <<"g0", 0>>
    /\ <<1>> \in Calls /\ FindByUrl(graph, PatternOf(<<1>>)) # Null
    /\ <<2>> \in Calls /\ FindByUrl(graph, PatternOf(<<2>>)) = Null

(***************************************************************************)
(* C12.  The handler's this.                                               *)
(***************************************************************************)
\* The listeners among ls that call setContext.
SetContextCalls(ls) == SelectSeq(ls, LAMBDA l : l \in DOMAIN ContextOf)

\* C12 as stated: every handler is invoked with this equal to the context
\* object given to the Scheduler constructor when no listener of its set
\* event called setContext, and equal to what the last setContext call was
\* given otherwise.
C12_Original ==
    \A ch \in DOMAIN log :
        \A i \in 1..Len(log[ch]) :
            log[ch][i].name = "set" =>
                LET calls == SetContextCalls(log[ch][i].heard)
                IN log[ch][i].context =
                      IF calls = <<>> THEN SchedulerContext
                      ELSE ContextOf[calls[Len(calls)]]

\* The part of C12 that holds: when listeners of a set event called
\* setContext, the handler is invoked with what the last call was given.
C12_SetContext ==
    \A ch \in DOMAIN log :
        \A i \in 1..Len(log[ch]) :
            LET calls == SetContextCalls(log[ch][i].heard)
            IN (log[ch][i].name = "set" /\ calls # <<>>) =>
                  log[ch][i].context = ContextOf[calls[Len(calls)]]

(***************************************************************************)
(* C17.  Listener management.                                              *)
(***************************************************************************)
\* The registrations of a listener that a history of add and remove calls
\* leaves: addEventListener pushes one more, removeEventListener splices
\* one out when there is one.
RECURSIVE Net(_)
Net(h) ==
    IF h = <<>> THEN 0
    ELSE LET n == Net(SubSeq(h, 1, Len(h) - 1))
         IN IF h[Len(h)] = "add" THEN n + 1
            ELSE IF n > 0 THEN n - 1 ELSE 0

\* How many times l occurs in ls.
Count(ls, l) == Cardinality({i \in 1..Len(ls) : ls[i] = l})

\* The events a step dispatches.
Dispatches ==
    UNION {{<<ch, i>> : i \in (IF ch \in DOMAIN log THEN Len(log[ch]) + 1
                               ELSE 1)..Len(log'[ch])} : ch \in DOMAIN log'}

\* The add and remove calls made so far for listener l of event name.
History(name, l) ==
    IF <<name, l>> \in DOMAIN listened THEN listened[<<name, l>>] ELSE <<>>

\* C17 as stated: a listener whose last call was a removal, after it was
\* added, is not invoked by a later dispatch of the event name.
RemovedUninvoked ==
    \A d \in Dispatches : \A l \in Listeners :
        LET e == log'[d[1]][d[2]]
            h == History(e.name, l)
        IN (h # <<>> /\ h[1] = "add" /\ h[Len(h)] = "remove") =>
              Count(e.heard, l) = 0

C17_Original == [][RemovedUninvoked]_vars

\* Every dispatch invokes a listener once for each registration that the
\* add and remove calls made before it leave.
InvokesRegistered ==
    \A d \in Dispatches : \A l \in Listeners :
        LET e == log'[d[1]][d[2]]
        IN Count(e.heard, l) = Net(History(e.name, l))

\* A removeEventListener call changes nothing when the listener is not in
\* the entry of the name or the name has no entry; otherwise it changes
\* the entry of that name only and leaves the other listeners in it, in
\* their order.
RemoveSilent ==
    \A r \in Removals :
        listened'[r] # listened[r] /\ nRemoves' # nRemoves =>
            /\ Count(Registered(r[1]), r[2]) = 0 => events' = events
            /\ DOMAIN events' = DOMAIN events
            /\ \A n \in DOMAIN events :
                  /\ n # r[1] => events'[n] = events[n]
                  /\ SelectSeq(events'[n], LAMBDA l : l # r[2])
                        = SelectSeq(events[n], LAMBDA l : l # r[2])
            /\ UNCHANGED <<frames, stack, queue, log, result, unhandled>>

\* C17 (amended): a removeEventListener call takes out one registration of
\* the listener, so a listener is not invoked by later dispatches of the
\* name once as many removals as additions took effect; removing a
\* listener that is not registered, or from a name that has no entry,
\* changes nothing and does not throw; other listeners are unaffected.
C17_Listeners == [][InvokesRegistered /\ RemoveSilent]_vars

\* A begin event was dispatched to nobody after its listener was added and
\* removed, and a listener of set that was registered meanwhile was
\* invoked.
C17_Witness ==
    /\ listened[<<"begin", "rec">>] = <<"add", "remove">>
    /\ \E ch \in Calls : log[ch][1].name = "begin" /\ log[ch][1].heard = <<>>
    /\ \E ch \in DOMAIN log : \E i \in 1..Len(log[ch]) :
          log[ch][i].name = "set" /\ log[ch][i].heard = <<"ctxA">>

(***************************************************************************)
(* C18.  The load event and setValue.                                      *)
(***************************************************************************)
\* The load(url) calls that run up to their first await in this step.
Loads ==
    {f \in DOMAIN frames :
        /\ frames[f].kind = "load" /\ frames[f].pc = "start"
        /\ f \in DOMAIN frames' /\ frames'[f].pc # "start"}

\* The events a step dispatches for activation f, in order.
DispatchedFor(f) ==
    LET ch == frames[f].chain
        added == SubSeq(log'[ch], Len(log[ch]) + 1, Len(log'[ch]))
    IN SelectSeq(added, LAMBDA e : e.fr = f)

\* Every load(url) call dispatches load first, whatever the cache holds,
\* and when a listener of it calls setValue the call returns the value
\* given, dispatches nothing else and does not invoke fetch.
LoadOverride ==
    \A f \in Loads :
        LET evs == DispatchedFor(f)
            fr == frames[f]
        IN /\ evs # <<>>
           /\ evs[1].name = "load"
           /\ evs[1].arg = fr.url
           /\ "sv" \in Range(evs[1].heard) =>
                 /\ Len(evs) = 1
                 /\ frames'[f].st = "ok"
                 /\ frames'[f].ret = Given(fr.loader, fr.url)
                 /\ cache'[fr.loader][fr.url] = Given(fr.loader, fr.url)
                 /\ fetchCount' = fetchCount

\* C18: the load event is dispatched on every Loader.load(url) call before
\* the cache is consulted, and when a listener calls setValue(v) during
\* that dispatch, load returns v and the host fetch is not invoked, also
\* when the cache held another value for the URL or there is no fetch.
C18_LoadOverride == [][LoadOverride]_vars

\* A URL was fetched and cached by one call, and a later load of it, with
\* the setValue listener registered meanwhile, replaced the cached object
\* by the listener's.
C18_Witness ==
    \E u \in Urls :
        /\ nClears = 0
        /\ fetchCount[u] = 1
        /\ cache[LoaderOf(u)][u] = Given(LoaderOf(u), u)
        /\ \E ch \in DOMAIN log : \E i \in 1..Len(log[ch]) :
              /\ log[ch][i].name = "load"
              /\ log[ch][i].arg = u
              /\ log[ch][i].heard = <<"sv">>

(***************************************************************************)
(* C19.  The payload of the load event.                                    *)
(***************************************************************************)
\* C19 as stated: the payload of every load event carries url, equal to
\* the URL being loaded.
C19_Original ==
    \A ch \in DOMAIN log :
        \A i \in 1..Len(log[ch]) :
            log[ch][i].name = "load" => log[ch][i].url = log[ch][i].arg

(***************************************************************************)
(* C20.  No host fetch.                                                    *)
(***************************************************************************)
\* A load(url) call that finds nothing cached, is given nothing by a
\* listener and has no fetch dispatches load and then an error event,
\* rejects, and leaves the cache as it was.
LoadWithoutFetch ==
    \A f \in Loads :
        LET evs == DispatchedFor(f)
            fr == frames[f]
        IN (/\ cache[fr.loader][fr.url] = Null
            /\ "sv" \notin Range(Registered("load"))
            /\ ~fetchDefined) =>
              /\ Names(evs) = <<"load", "error">>
              /\ evs[2].message = "Fetch is not defined"
              /\ frames'[f].st = "err"
              /\ frames'[f].err = "Fetch is not defined"
              /\ cache' = cache
              /\ fetchCount' = fetchCount

\* The positions of the log where a load of url u failed for lack of a
\* fetch.
FailedLoads(u) ==
    {<<ch, i>> \in UNION {{ch} \X (1..Len(log[ch])) : ch \in DOMAIN log} :
        /\ log[ch][i].name = "load"
        /\ log[ch][i].arg = u
        /\ i < Len(log[ch])
        /\ log[ch][i + 1].name = "error"
        /\ log[ch][i + 1].fr = log[ch][i].fr
        /\ log[ch][i + 1].message = "Fetch is not defined"}

\* C20: when Loader.load(url) is called with no cached or overridden value
\* for url and no host fetch defined, it dispatches an error event whose
\* message contains "Fetch is not defined", rejects, and leaves the cache
\* unchanged, so that a later load of the same url is a cache miss again.
C20_NoFetch == [][LoadWithoutFetch]_vars

\* The same URL was loaded twice without a host fetch, and both loads
\* failed.
C20_Witness ==
    /\ ~fetchDefined
    /\ \E u \in Urls : Cardinality(FailedLoads(u)) >= 2

(***************************************************************************)
(* C21.  A connector without a target.                                     *)
(***************************************************************************)
\* The positions of write s's log at which the setter dispatched an event
\* of one name for connector c.
ForConnector(s, name, c) ==
    {k \in 1..Len(log[s]) :
        log[s][k].name = name /\ log[s][k].fr = s /\ log[s][k].connector = c}

\* The activation of the edge executor that write s starts for the i-th
\* connector of its edge.
Invocation(s, i) == Append(s, 40 + i)

\* The positions of write s's log at which the target of its i-th
\* connector was invoked with that connector's field and the value written.
Invoked(s, i) ==
    LET c == Connectors[Declared(s)[i]]
    IN {k \in 1..Len(log[s]) :
          /\ log[s][k].name = "beginedge"
          /\ log[s][k].fr = Invocation(s, i)
          /\ log[s][k].vectorId = c.vectorId
          /\ log[s][k].field = c.field
          /\ log[s][k].value = log[s][1].value}

\* C21: during the fan-out of an edge write, a connector whose vectorId is
\* not in the target graph gets exactly one error event for that connector
\* and no beginconnector or beginedge, and every connector after it in the
\* same edge still has its target invoked with the value written.
C21_Dangling ==
    \A s \in Writes :
        \A i \in 1..Len(Declared(s)) :
            LET c == Declared(s)[i]
                errors == ForConnector(s, "error", c)
            IN ~HasTarget(c) =>
                  /\ Cardinality(errors) <= 1
                  /\ WriteDone(s) => Cardinality(errors) = 1
                  /\ ForConnector(s, "beginconnector", c) = {}
                  /\ \A k \in 1..Len(log[s]) : log[s][k].fr # Invocation(s, i)
                  /\ \A k \in errors :
                        log[s][k].message
                           = "Connector refers to a vector edge that does not exist"
                  /\ WriteDone(s) =>
                        \A j \in (i + 1)..Len(Declared(s)) :
                            HasTarget(Declared(s)[j]) =>
                               /\ Cardinality(Invoked(s, j)) = 1
                               /\ \A k \in Invoked(s, j) : \A e \in errors : e < k

\* A finished write whose second connector has no target: it got its
\* error event, and the target of the third connector was invoked after it.
C21_Witness ==
    \E s \in Writes :
        /\ WriteDone(s)
        /\ Len(Declared(s)) = 3
        /\ ~HasTarget(Declared(s)[2])
        /\ ForConnector(s, "error", Declared(s)[2]) # {}
        /\ Invoked(s, 3) # {}

(***************************************************************************)
(* C22.  A linked graph that resolves to nothing.                          *)
(***************************************************************************)
\* The settled url() calls that matched a host vector whose linked graph
\* the loader resolved to nothing: the host serves no such graph, so
\* linkedGraph.loaded is still false when the call has settled.
MissingGraph ==
    {c \in Calls :
        LET v == FindByUrl(graph, PatternOf(c))
        IN /\ c \in DOMAIN result
           /\ v # Null
           /\ Def(v).linkedGraph.has
           /\ ~heap[v].lgLoaded}

\* C22 as stated: such an invocation dispatches an error event, splices
\* nothing, leaves linkedGraph.loaded false and goes on with the host
\* vector: the handler of the host runs if its template.set is not empty,
\* and endedge is dispatched.
C22_Original ==
    \A c \in MissingGraph :
        LET v == FindByUrl(graph, PatternOf(c))
            names == Range(Names(log[c]))
        IN /\ "error" \in names
           /\ "endedge" \in names
           /\ Def(v).set # "" => "set" \in names

\* What the code does instead: such an invocation stops where the linked
\* graph is missing.  linkInnerVectorEdges throws, so nothing is spliced,
\* linkedGraph.loaded stays false, the execution of the vector rejects,
\* and the edge executor dispatches one error event for it, then endedge;
\* no handler runs, that of the host included.
MissingGraphStops ==
    \A c \in MissingGraph :
        LET v == FindByUrl(graph, PatternOf(c))
            e == Append(c, 1)
        IN /\ Names(log[c]) = <<"begin", "beginedge", "load", "error", "endedge", "end">>
           /\ log[c][4].fr = e
           /\ log[c][4].vectorId = v[3]
           /\ log[c][4].err = "Critical Error: Linked graph not found"
           /\ heap[v].lgGraph = Null
           /\ heap[v].edges = Def(v).edges
           /\ result[c] = "ok"

(***************************************************************************)
(* C23.  A linked vector that resolves to nothing.                         *)
(***************************************************************************)
\* The settled url() calls that matched a host vector whose linked vector
\* the loader resolved to nothing: there is a fetch, but the host serves
\* no such artifact, so linkedVector.loaded is still false when the call
\* has settled.
MissingVector ==
    {c \in Calls :
        LET v == FindByUrl(graph, PatternOf(c))
        IN /\ c \in DOMAIN result
           /\ fetchDefined
           /\ v # Null
           /\ Def(v).linkedVector.has
           /\ ~heap[v].lvLoaded}

\* The URL of the artifact that host vector v is linked to.
LinkedVectorPath(v) ==
    getVectorPath(Def(v).linkedVector.id, Def(v).linkedVector.version)

\* C23: when the linked vector of a host vector resolves to nothing,
\* exactly one error event ("Linked vector not found") is dispatched,
\* linkedVector.loaded stays false, the invocation goes on with the host
\* vector itself (its handler, or the error of a missing template), and
\* every execution of the host asks the loader again.
C23_MissingVector ==
    \A c \in MissingVector :
        LET v == FindByUrl(graph, PatternOf(c))
            x == Append(Append(c, 1), 2)
            l == Only(log[c], Range(Six) \cup {"load", "error"})
        IN /\ Names(l) = <<"begin", "beginedge", "load", "error">>
                            \o (IF Def(v).set # "" THEN <<"set", "afterSet">>
                                ELSE <<"error">>)
                            \o <<"endedge", "end">>
           /\ l[3].arg = LinkedVectorPath(v)
           /\ l[4].fr = x
           /\ l[4].message = "Linked vector not found"
           /\ l[4].vectorId = v[3]
           /\ l[5].vectorId = v[3]
           /\ Def(v).set = "" => l[5].message = "No template for set found"
           /\ heap[v].lvVector = Null
           /\ fetchCount[LinkedVectorPath(v)]
                 >= Cardinality({d \in MissingVector :
                                    FindByUrl(graph, PatternOf(d)) = v})

\* Two calls on the host vector M, which has a handler, have settled with
\* the linked vector missing: each asked for it and each ran the handler
\* of M.
C23_Witness ==
    /\ MissingVector = {<<1>>, <<2>>}
    /\ \A c \in MissingVector :
          /\ FindByUrl(graph, PatternOf(c)) = <<"gn", 0, "M">>
          /\ \E i \in 1..Len(log[c]) :
                log[c][i].name = "set" /\ log[c][i].vectorId = "M"

(***************************************************************************)
(* C24.  An empty template.                                                *)
(***************************************************************************)
\* The executions that reach the template in this step with an empty
\* template.set.
EmptyTemplates ==
    {f \in DOMAIN frames :
        /\ frames[f].kind = "vexec" /\ frames[f].pc = "run"
        /\ Def(frames[f].vect).set = ""
        /\ f \in DOMAIN frames' /\ frames'[f].pc # "run"}

\* Such an execution dispatches one error event when the vector has no
\* linked graph and nothing when it has one, starts no handler, and
\* completes.
EmptyTemplate ==
    \A f \in EmptyTemplates :
        LET evs == DispatchedFor(f)
            vect == frames[f].vect
        IN /\ Names(evs) = IF Def(vect).linkedGraph.has THEN <<>> ELSE <<"error">>
           /\ \A i \in 1..Len(evs) :
                 /\ evs[i].message = "No template for set found"
                 /\ evs[i].vectorId = vect[3]
           /\ Append(f, 5) \notin DOMAIN frames'
           /\ frames'[f].st = "ok"
           /\ \A ch \in DOMAIN log' :
                 \A i \in 1..Len(log'[ch]) : log'[ch][i].fr # Append(f, 5)

\* An execution that reported a missing template has dispatched neither
\* set nor afterSet, and its invocation ends with endedge.
NoTemplateEnds ==
    \A ch \in DOMAIN log :
        \A i \in 1..Len(log[ch]) :
            LET ev == log[ch][i]
                x == ev.fr
                e == SubSeq(x, 1, Len(x) - 1)
            IN (ev.name = "error" /\ ev.message = "No template for set found") =>
                  /\ \A k \in 1..Len(log[ch]) :
                        log[ch][k].fr \in {x, Append(x, 5)} =>
                           /\ log[ch][k].name \notin {"set", "afterSet"}
                           /\ log[ch][k].message = ev.message => k = i
                  /\ Settled(e) => \E k \in At(ch, "endedge", e) : k > i

\* C24: executing an effective vector whose template.set is empty
\* dispatches exactly one error event ("No template for set found") when
\* the vector has no linked graph and no error when it has one; in both
\* cases no handler runs, no set or afterSet is dispatched, and endedge is
\* still dispatched.
C24_EmptyTemplate == []NoTemplateEnds /\ [][EmptyTemplate /\ SettlesBracketed]_vars

\* The vector H2, which has a linked graph and no template, was executed
\* on a field its linked graph does not map and its invocation ended; and
\* a call on the vector L, which has neither, reported the missing
\* template and ended.
C24_Witness ==
    /\ \E ch \in Writes : \E i, k \in 1..Len(log[ch]) :
          /\ i < k
          /\ log[ch][i].name = "beginedge" /\ log[ch][i].vectorId = "H2"
          /\ log[ch][k].name = "endedge" /\ log[ch][k].fr = log[ch][i].fr
          /\ \A j \in 1..Len(log[ch]) :
                log[ch][j].fr = Append(log[ch][i].fr, 2) => log[ch][j].name = "load"
    /\ \E c \in Calls : \E i \in 1..Len(log[c]) :
          /\ c \in DOMAIN result
          /\ log[c][i].name = "error"
          /\ log[c][i].message = "No template for set found"
          /\ log[c][i].vectorId = "L"

(***************************************************************************)
(* C25.  A failure inside the edge setter.                                 *)
(***************************************************************************)
\* The fan-out of write s dealt with its i-th connector: the downstream
\* invocation ended, or the connector had no target and got its error.
Handled(s, i) ==
    \/ ForConnector(s, "endconnector", Declared(s)[i]) # {}
    \/ ForConnector(s, "error", Declared(s)[i]) # {}

\* The finished writes whose fan-out was cut short by a failure.
FailedWrites ==
    {s \in Writes : WriteDone(s) /\ \E i \in 1..Len(Declared(s)) : ~Handled(s, i)}

\* The error events of the catch around the setter of write s.
SetterErrors(s) ==
    {k \in 1..Len(log[s]) :
        log[s][k].fr = s /\ log[s][k].name = "error"
        /\ log[s][k].message = "Edge setter error"}

\* The execution whose handler made write s.
Writer(s) == SubSeq(s, 1, Len(s) - 2)

\* The afterSet events of the handlers that wrote carry no err: the
\* failure of a fan-out never reaches the handler that wrote.
HandlerUnaffected ==
    \A s \in Writes :
        \A ch \in DOMAIN log :
            \A k \in 1..Len(log[ch]) :
                (log[ch][k].name = "afterSet" /\ log[ch][k].fr = Writer(s)) =>
                    log[ch][k].err = ""

\* C25 as stated: a failure raised while fanning out an edge write is
\* reported as an error event whose message contains "Edge setter error",
\* and never reaches the writing handler, whose afterSet carries no err.
C25_Original ==
    /\ \A s \in FailedWrites : SetterErrors(s) # {}
    /\ HandlerUnaffected

(***************************************************************************)
(* C26.  The cache of a vector and the state of the scheduler.             *)
(***************************************************************************)
\* The afterSet events dispatched so far, as <<chain, index>>.
AfterSets ==
    UNION {{<<ch, k>> : k \in {n \in 1..Len(log[ch]) : log[ch][n].name = "afterSet"}} :
           ch \in DOMAIN log}

\* Every handler invocation got the cache object scheduler.vectorCache now
\* holds for its effective vector, and the state object of the scheduler.
CacheShared ==
    \A a \in AfterSets :
        LET ev == log[a[1]][a[2]]
        IN /\ ev.vectorId \in DOMAIN vectorCache
           /\ ev.cache = vectorCache[ev.vectorId]
           /\ ev.state = SchedulerState

\* A step deletes no entry of scheduler.vectorCache and replaces none.
CacheKept ==
    \A id \in DOMAIN vectorCache :
        id \in DOMAIN vectorCache' /\ vectorCache'[id] = vectorCache[id]

\* C26: once vectorCache[id] exists the engine never deletes or replaces
\* it; every later invocation of effective vector id receives that same
\* cache object, and every handler invocation receives the one state
\* object of the scheduler.
C26_CachePersists == []CacheShared /\ [][CacheKept]_vars

\* Two invocations of one effective vector, by different url() calls with a
\* clearCache() made, have both dispatched afterSet.
C26_Witness ==
    /\ nClears > 0
    /\ \E a, b \in AfterSets :
          /\ a[1] # b[1]
          /\ a[1] \in Calls /\ b[1] \in Calls
          /\ log[a[1]][a[2]].vectorId = log[b[1]][b[2]].vectorId
          /\ log[a[1]][a[2]].cache = log[b[1]][b[2]].cache

(***************************************************************************)
(* C27.  The effective vector of a host with a linked vector.              *)
(***************************************************************************)
\* The executions that have passed the resolution of the linked vector of
\* their host, whose linked vector is resolved.
PastLinkedVector ==
    {f \in DOMAIN frames :
        /\ frames[f].kind = "vexec"
        /\ frames[f].pc \in {"linkedGraph", "run"}
        /\ Def(frames[f].vector).linkedVector.has
        /\ heap[frames[f].vector].lvLoaded}

\* The first execution of host L resolved its linked vector and ran the
\* handler of the linked vector; a later one ran none.
LaterExecutionUsesHost ==
    \E a, b \in Calls :
        /\ a # b
        /\ \E k \in 1..Len(log[a]) :
              log[a][k].name = "afterSet" /\ log[a][k].vectorId = "pv"
        /\ \E k \in 1..Len(log[b]) :
              /\ log[b][k].name = "error" /\ log[b][k].vectorId = "L"
              /\ log[b][k].message = "No template for set found"

\* C27 as stated: on every execution of a host whose linked vector has
\* been resolved, the first and every later one, the effective vector is
\* linkedVector.vector, carrying the data and properties of the host.
C27_Original ==
    \A f \in PastLinkedVector :
        LET host == frames[f].vector
            linked == heap[host].lvVector
        IN /\ frames[f].vect = linked
           /\ heap[linked].data = heap[host].data
           /\ heap[linked].properties = heap[host].properties

(***************************************************************************)
(* C28.  A linked artifact is loaded once.                                 *)
(***************************************************************************)
\* The vector objects of the heap.
VectorObjects == {v \in DOMAIN heap : Len(v) = 3}

\* A step assigns no loaded artifact to a linkedGraph.graph or a
\* linkedVector.vector that holds one already (the splicing of a host's
\* connectors is done in the step that assigns its linked graph).
AssignedOnce ==
    \A v \in VectorObjects :
        /\ heap[v].lgGraph # Null => heap'[v].lgGraph = heap[v].lgGraph
        /\ heap[v].lvVector # Null => heap'[v].lvVector = heap[v].lvVector

\* C28 as stated: linkedGraph.graph and linkedVector.vector are assigned a
\* loaded artifact at most once per scheduler, and the splicing runs at
\* most once per host, also when two invocations of the host are in flight
\* before the first load has completed.
C28_Original == [][AssignedOnce]_vars

(***************************************************************************)
(* C29.  The remap of the input field of a host with a linked graph.       *)
(***************************************************************************)
\* The executions past the linked graph block of execute whose vector is
\* a host with a resolved linked graph.
PastLinkedGraph ==
    {x \in DOMAIN frames :
        /\ frames[x].kind = "vexec"
        /\ frames[x].pc \in {"run", "afterSet"}
        /\ Def(frames[x].vector).linkedGraph.has
        /\ heap[frames[x].vector].lgLoaded}

\* The invocation that called execution x: it holds the field and value
\* the execution was called with.
Invoker(x) == frames[SubSeq(x, 1, Len(x) - 1)]

\* Execution x uses what getLinkedInputs returns for its host and the
\* field it was called with: the inner vector and field of inputs[field]
\* and the linked graph, or the host and the field when there is no entry.
Remapped(x) ==
    LET host == frames[x].vector
        linked == heap[host].lgGraph
        mappedConnector == MappedConnector(host, Invoker(x).field)
    IN /\ frames[x].value = Invoker(x).value
       /\ IF mappedConnector # Null
          THEN /\ frames[x].vect = FindById(linked, mappedConnector[1].id)
               /\ frames[x].field = mappedConnector[1].field
               /\ frames[x].graph = linked
          ELSE /\ frames[x].vect = host
               /\ frames[x].field = Invoker(x).field

\* The handler started by execution x runs for the vector, field, value
\* and graph of x.
RunsAs(h, x) ==
    /\ frames[h].vect = frames[x].vect
    /\ frames[h].field = frames[x].field
    /\ frames[h].value = frames[x].value
    /\ frames[h].graph = frames[x].graph

\* C29: on every execution, first or later, of a host with a resolved
\* linked graph called with field f, when inputs[f] = {id: V, field: f'}
\* the handler that runs is the one of inner vector V, with field f', the
\* unchanged value and the linked graph as graph; when inputs has no entry
\* for f, field and effective vector stay the host's.
C29_Remap ==
    /\ \A x \in PastLinkedGraph : Remapped(x)
    /\ \A h \in DOMAIN frames :
          (frames[h].kind = "handler" /\ frames[h].own \in PastLinkedGraph) =>
              RunsAs(h, frames[h].own)

\* A first url() call has run the handler of inner vector P2 for host O1
\* and settled; in the second call the handler of P2 has run again for O1,
\* and its write has reached host H2 with field aux, which fields.inputs of
\* H2 does not have, so that H2 itself is the effective vector.
C29_Witness ==
    /\ \E a, b \in Calls :
          /\ a \in DOMAIN result /\ b \notin DOMAIN result
          /\ \E k \in 1..Len(log[a]) :
                /\ log[a][k].name = "afterSet" /\ log[a][k].vectorId = "P2"
                /\ log[a][k].field = "in"
          /\ \E k \in 1..Len(log[b]) :
                /\ log[b][k].name = "set" /\ log[b][k].vectorId = "P2"
                /\ log[b][k].field = "in"
    /\ \E x \in PastLinkedGraph :
          /\ VId(frames[x].vector) = "H2" /\ VId(frames[x].vect) = "H2"
          /\ frames[x].field = "aux"

(***************************************************************************)
(* C30.  beginconnector and endconnector.                                  *)
(***************************************************************************)
\* The beginconnector and endconnector events of write s, in order.
ConnectorEvents(s) ==
    SelectSeq(log[s], LAMBDA e : e.fr = s /\ e.name \in {"beginconnector", "endconnector"})

\* The endedge of an invocation of vector id started by write s lies
\* between events i and j of the chain of s.
EndedgeBetween(s, id, i, j) ==
    \E m \in (i + 1)..(j - 1) :
        /\ log[s][m].name = "endedge"
        /\ DirectChild(s, log[s][m].fr)
        /\ log[s][m].vectorId = id

\* Position in log[s] of the n-th connector event of write s.
ConnectorEventAt(s, n) ==
    CHOOSE k \in 1..Len(log[s]) :
        /\ log[s][k] = ConnectorEvents(s)[n]
        /\ Len(SelectSeq(SubSeq(log[s], 1, k),
                         LAMBDA e : e.fr = s /\ e.name \in {"beginconnector", "endconnector"})) = n

\* The connector events of write s come in pairs, a beginconnector and then
\* the endconnector of the same connector and value, with the endedge of
\* the connector's target in between; only the last beginconnector of a
\* write that is still running may have no endconnector yet.
Paired(s) ==
    LET evs == ConnectorEvents(s)
    IN \A n \in 1..Len(evs) :
          IF n % 2 = 1
          THEN /\ evs[n].name = "beginconnector"
               /\ n = Len(evs) => ~WriteDone(s)
          ELSE /\ evs[n].name = "endconnector"
               /\ evs[n].connector = evs[n - 1].connector
               /\ evs[n].value = evs[n - 1].value
               /\ EndedgeBetween(s, Connectors[evs[n].connector].vectorId,
                                 ConnectorEventAt(s, n - 1), ConnectorEventAt(s, n))

\* C30 as stated: every beginconnector for a connector is followed by
\* exactly one endconnector for it with the same value, dispatched after
\* the endedge of the connector's target, whether the downstream
\* invocation succeeded or failed.
C30_Original == \A s \in Writes : Paired(s)

\* A write has finished after a beginconnector that no endconnector
\* followed: the downstream invocation failed.
Unpaired ==
    \E s \in Writes :
        /\ WriteDone(s)
        /\ Len(ConnectorEvents(s)) % 2 = 1
        /\ SetterErrors(s) # {}

(***************************************************************************)
(* C31.  end does not imply quiescence.                                    *)
(***************************************************************************)
\* The invocations of chain ch that have dispatched beginedge and not yet
\* endedge.
Open(ch) ==
    {log[ch][i].fr : i \in {k \in 1..Len(log[ch]) :
        /\ log[ch][k].name = "beginedge"
        /\ At(ch, "endedge", log[ch][k].fr) = {}}}

\* The edge writes made during call c, by its handlers and by the handlers
\* their fan-out invoked.
WritesOf(c) == {s \in Writes : IsPrefix(c, s)}

\* C31: when end of a url() call has been dispatched and its promise has
\* resolved, the invocation url() awaited has dispatched its endedge; the
\* invocations started by the fan-out of the edge writes of the call are
\* not waited for, and may have dispatched beginedge and no endedge yet.
C31_EndNotQuiescent ==
    \A c \in Calls :
        (c \in DOMAIN result /\ At(c, "end", c) # {}) => Open(c) = {}

\* end of a url() call has been dispatched and the call has resolved while
\* an invocation started by the fan-out of a write of that call has
\* dispatched beginedge and not endedge.
C31_Witness ==
    \E c \in Calls :
        /\ c \in DOMAIN result
        /\ result[c] = "ok"
        /\ At(c, "end", c) # {}
        /\ \E s \in WritesOf(c) : Open(s) # {}

(***************************************************************************)
(* C32.  Data and properties given to the inner vectors of a linked graph. *)
(***************************************************************************)
\* hasOwnProperty.call(map, id)
Keyed(map, id) == \E i \in 1..Len(map) : map[i].id = id

\* map[id]
Entry(map, id) == map[CHOOSE i \in 1..Len(map) : map[i].id = id].val

\* A step that resolves the linked graph of a vector replaces data and
\* properties of exactly the inner vectors that linkedGraph.data and
\* linkedGraph.properties have a key for, and of no other vector.
OverrideOnResolve ==
    \A v \in VectorObjects :
        (~heap[v].lgLoaded /\ heap'[v].lgLoaded) =>
            LET lg == Def(v).linkedGraph
                g == heap'[v].lgGraph
            IN \A r \in VectorObjects :
                  IF GraphOf(r) = g
                  THEN /\ heap'[r].data =
                             IF Keyed(lg.data, r[3]) THEN Entry(lg.data, r[3])
                             ELSE heap[r].data
                       /\ heap'[r].properties =
                             IF Keyed(lg.properties, r[3])
                             THEN Entry(lg.properties, r[3])
                             ELSE heap[r].properties
                  ELSE /\ heap'[r].data = heap[r].data
                       /\ heap'[r].properties = heap[r].properties

\* The hosts of the base graph that have a linked graph.
BaseHosts ==
    {id \in Range(Artifacts[graph[1]].vectors) : VectorDefs[id].linkedGraph.has}

\* The handler of an inner vector is given the data and properties that the
\* host of its graph has an entry for, and its own where it has none.
HandlersSee ==
    \A a \in AfterSets :
        LET ev == log[a[1]][a[2]]
        IN \A id \in BaseHosts :
              LET lg == VectorDefs[id].linkedGraph
              IN ev.vectorId \in Range(Artifacts[lg.id].vectors) =>
                    /\ ev.data = IF Keyed(lg.data, ev.vectorId)
                                 THEN Entry(lg.data, ev.vectorId)
                                 ELSE VectorDefs[ev.vectorId].data
                    /\ ev.properties = IF Keyed(lg.properties, ev.vectorId)
                                       THEN Entry(lg.properties, ev.vectorId)
                                       ELSE VectorDefs[ev.vectorId].properties

\* C32: when a linked graph is first resolved, each inner vector whose id
\* is a key of linkedGraph.data gets its data replaced by that entry, each
\* whose id is a key of linkedGraph.properties gets its properties
\* replaced, data and properties of every other inner vector are left as
\* they were, and the handlers of the inner vectors see the values so set.
C32_Overrides == []HandlersSee /\ [][OverrideOnResolve]_vars

\* The handler of inner vector P has run with the data of the host's entry
\* and its own properties, and the handler of inner vector Q with its own
\* data and the properties of the host's entry.
C32_Witness ==
    /\ \E a \in AfterSets :
          LET ev == log[a[1]][a[2]]
          IN ev.vectorId = "P" /\ ev.data = "TEST" /\ ev.properties = "pP"
    /\ \E a \in AfterSets :
          LET ev == log[a[1]][a[2]]
          IN ev.vectorId = "Q" /\ ev.data = "dQ" /\ ev.properties = "PROP"

(***************************************************************************)
(* C33.  dispatchEvent.                                                    *)
(***************************************************************************)
\* An addEventListener call puts the listener behind the listeners the
\* name has, and leaves the entries of the other names alone.
AddsLast ==
    nListens' # nListens =>
        \E n \in DOMAIN events' :
            /\ \E l \in Listeners : events'[n] = Append(Registered(n), l)
            /\ \A o \in DOMAIN events' \ {n} : o \in DOMAIN events /\ events'[o] = events[o]

\* A dispatch calls the listeners in the entry of the event's name, each
\* once for every time it is in the entry, in the order of the entry and
\* on the Scheduler, and no other listener; without an entry nobody is
\* called.  No dispatch changes the entries.
CallsEntry ==
    \A d \in Dispatches :
        LET e == log'[d[1]][d[2]]
        IN /\ events' = events
           /\ e.heard = IF e.name \in DOMAIN events THEN events[e.name] ELSE <<>>
           /\ e.heard # <<>> => e.receiver = SchedulerObject

\* C33: dispatchEvent(name, payload) invokes exactly the listeners
\* registered under name, once per registration, synchronously and in
\* registration order, with this bound to the Scheduler; listeners of
\* other names are not invoked, and a name without listeners does nothing.
C33_Dispatch == [][AddsLast /\ CallsEntry]_vars

\* Listener ctxB was registered for set and then ctxA; a set event was
\* dispatched to ctxB and then ctxA, and the begin event of that call to
\* nobody.
C33_Witness ==
    /\ Registered("set") = <<"ctxB", "ctxA">>
    /\ \E c \in Calls :
          /\ log[c][1].name = "begin" /\ log[c][1].heard = <<>>
          /\ \E i \in 1..Len(log[c]) :
                /\ log[c][i].name = "set"
                /\ log[c][i].heard = <<"ctxB", "ctxA">>
                /\ log[c][i].receiver = SchedulerObject

(***************************************************************************)
(* C34.  What splicing changes.                                            *)
(***************************************************************************)
\* Edge edg of inner vector id is named by the field map of host object v:
\* some entry of fields.outputs is {id, field of edg} and the host has an
\* edge with that field.
Named(v, id, edg) ==
    \E n \in 1..Len(Def(v).linkedGraph.outputs) :
        LET o == Def(v).linkedGraph.outputs[n]
        IN /\ o.id = id
           /\ o.field = edg.field
           /\ \E i \in 1..Len(heap[v].edges) : heap[v].edges[i].field = o.field

\* A step that resolves the linked graph of a vector adds connectors to
\* the inner edges its field map names, and changes the connectors of no
\* other edge of an inner vector, nor an edge of any other vector, the
\* host among them.
SplicesNamedOnly ==
    \A v \in VectorObjects :
        (~heap[v].lgLoaded /\ heap'[v].lgLoaded) =>
            \A r \in VectorObjects :
                \A i \in 1..Len(heap[r].edges) :
                    LET old == heap[r].edges[i].connectors
                        new == heap'[r].edges[i].connectors
                    IN IF GraphOf(r) = heap'[v].lgGraph /\ Named(v, r[3], heap[r].edges[i])
                       THEN IsPrefix(old, new)
                       ELSE new = old

\* C34 as stated: splicing changes only the inner edges named by the field
\* map; the connectors of every other inner edge, other edges of the named
\* vector included, and the host's own edges are unchanged.
C34_Original == [][SplicesNamedOnly]_vars

\* What the code does: the step adds connectors to every edge of an inner
\* vector that an entry of fields.outputs names together with the field of
\* a host edge, and changes no edge of any other vector.
SplicesVectorsNamed ==
    \A v \in VectorObjects :
        (~heap[v].lgLoaded /\ heap'[v].lgLoaded) =>
            \A r \in VectorObjects :
                \A i \in 1..Len(heap[r].edges) :
                    LET old == heap[r].edges[i].connectors
                        new == heap'[r].edges[i].connectors
                    IN IF /\ GraphOf(r) = heap'[v].lgGraph
                          /\ \E k \in 1..Len(heap[r].edges) : Named(v, r[3], heap[r].edges[k])
                       THEN IsPrefix(old, new)
                       ELSE new = old

(***************************************************************************)
(* C35.  Splicing twice.                                                   *)
(***************************************************************************)
\* The graph objects of the heap.
GraphObjects == {GraphOf(r) : r \in VectorObjects}

\* The connectors of every edge of every vector object of heap h.
ConnectorsIn(h) ==
    [r \in {x \in DOMAIN h : Len(x) = 3} |->
        [i \in 1..Len(h[r].edges) |-> h[r].edges[i].connectors]]

\* For every host and every object of its linked graph, splicing a second
\* time changes the connectors of no edge.
Idempotent ==
    \A v \in VectorObjects :
        Def(v).linkedGraph.has =>
            \A g \in GraphObjects :
                g[1] = Def(v).linkedGraph.id =>
                    LET once == linkInnerVectorEdges(heap, v, g)
                        twice == linkInnerVectorEdges(once, v, g)
                    IN ConnectorsIn(twice) = ConnectorsIn(once)

\* The connectors write s has begun, in order.
Begun(s) ==
    LET evs == SelectSeq(log[s], LAMBDA e : e.fr = s /\ e.name = "beginconnector")
    IN [i \in 1..Len(evs) |-> evs[i].connector]

StoppedAt(s) ==
    CHOOSE i \in 1..Len(Declared(s)) :
        ~Handled(s, i) /\ \A j \in 1..(i - 1) : Handled(s, j)

\* No event of write s is about a connector declared after the one it
\* stopped at.
NothingAfter(s) ==
    \A j \in (StoppedAt(s) + 1)..Len(Declared(s)) :
        \A k \in 1..Len(log[s]) :
            log[s][k].fr = s => log[s][k].connector # Declared(s)[j]

\* The writes to the edge write s assigned to.
SameEdge(s) ==
    {t \in Writes : log[t][1].obj = log[s][1].obj /\ log[t][1].field = log[s][1].field}

\* The first event write t dispatched about a connector, if any, is about
\* the first connector of its edge.
FromFirst(t) ==
    \A k \in 1..Len(log[t]) :
        (log[t][k].fr = t /\ log[t][k].connector # "") =>
            \E m \in 1..k :
                log[t][m].fr = t /\ log[t][m].connector = Declared(t)[1]

\* C36 as stated: when handling a connector of an edge write raises, no
\* connector after it is invoked for that write, exactly one "Edge setter
\* error" event is dispatched for the write, and every write to the same
\* edge starts from the first connector.
C36_Original ==
    \A s \in FailedWrites :
        /\ NothingAfter(s)
        /\ Cardinality(SetterErrors(s)) = 1
        /\ \A t \in SameEdge(s) : FromFirst(t)

\* What the setter keeps of it: the fan-out stops, at most one event
\* reports it, and every write starts from the first connector.
StopsAndRestarts ==
    \A s \in FailedWrites :
        /\ NothingAfter(s)
        /\ Cardinality(SetterErrors(s)) <= 1
        /\ \A t \in SameEdge(s) : FromFirst(t)

(***************************************************************************)
(* C37.  One error event for one failure.                                  *)
(***************************************************************************)
\* Error event a, dispatched by an outer layer, reports the failure that
\* error event b, dispatched by a layer it called, has reported: the
\* error a wraps is the one b carried.
SameFailure(a, b) ==
    /\ a.name = "error" /\ b.name = "error"
    /\ IsPrefix(a.fr, b.fr) /\ a.fr # b.fr
    /\ a.err # ""
    /\ a.err = b.message

\* C37 as stated: each failure during a url() call is reported by exactly
\* one error event; no failure is reported a second time by another
\* layer (loader, executor, edge envelope).
C37_Original ==
    \A ch \in DOMAIN log :
        \A j, k \in 1..Len(log[ch]) :
            ~SameFailure(log[ch][j], log[ch][k])

\* The failures the executor itself reports are reported once: an error
\* event of the envelope never wraps what the executor or the setter
\* dispatched, only what the loader did.
OnlyLoaderTwice ==
    \A ch \in DOMAIN log :
        \A j, k \in 1..Len(log[ch]) :
            SameFailure(log[ch][j], log[ch][k]) =>
                log[ch][k].message = "Fetch is not defined"

(***************************************************************************)
(* C38.  Listeners that add and remove listeners during a dispatch.        *)
(***************************************************************************)
\* this.events after addEventListener(name, l).
Pushed(evts, name, l) ==
    IF name \in DOMAIN evts THEN [evts EXCEPT ![name] = Append(@, l)]
    ELSE evts @@ (name :> <<l>>)

\* this.events after removeEventListener(name, l).
Spliced(evts, name, l) ==
    IF name \notin DOMAIN evts THEN evts
    ELSE IF IndexOf(evts[name], l) = 0 THEN evts
    ELSE [evts EXCEPT ![name] = Splice(@, IndexOf(evts[name], l))]

\* this.events after listener l of event name has run.
After(evts, name, l) ==
    CASE l = "rmSelf" -> Spliced(evts, name, "rmSelf")
      [] l = "rmRec" -> Spliced(evts, name, "rec")
      [] l = "addLate" -> Pushed(evts, name, "late")
      [] OTHER -> evts

\* The embedding program calls dispatchEvent(name, payload): the loop over
\* this.events[name] starts before its first element.
DispatchEvent(name) ==
    /\ stack = <<>>
    /\ frames = <<>>
    /\ dispatching = Null
    /\ dispatching' = [name |-> name, registered |-> Registered(name),
                       next |-> 1, invoked |-> <<>>, returned |-> FALSE]
    /\ UNCHANGED <<frames, stack, queue, log, heap, cache, fetchCount,
                   sinceClear, gens, vectorCache, graph, fetchDefined, served,
                   result, unhandled, ops, nCalls, nClears, events, nListens,
                   nRemoves, listened, overlap>>

\* One turn of for (const listener of this.events[eventName]): the
\* iterator reads the element at its index from the array as it is now
\* and the listener is called.
ListenerCall ==
    /\ dispatching # Null
    /\ ~dispatching.returned
    /\ dispatching.next <= Len(Registered(dispatching.name))
    /\ LET l == Registered(dispatching.name)[dispatching.next]
       IN /\ events' = After(events, dispatching.name, l)
          /\ dispatching' = [dispatching EXCEPT !.next = @ + 1,
                                                !.invoked = Append(@, l)]
    /\ UNCHANGED <<frames, stack, queue, log, heap, cache, fetchCount,
                   sinceClear, gens, vectorCache, graph, fetchDefined, served,
                   result, unhandled, ops, nCalls, nClears, nListens,
                   nRemoves, listened, overlap>>

\* The iterator's index is past the end of the array as it is now: the
\* loop is over and dispatchEvent returns.
DispatchReturn ==
    /\ dispatching # Null
    /\ ~dispatching.returned
    /\ dispatching.next > Len(Registered(dispatching.name))
    /\ dispatching' = [dispatching EXCEPT !.returned = TRUE]
    /\ UNCHANGED <<frames, stack, queue, log, heap, cache, fetchCount,
                   sinceClear, gens, vectorCache, graph, fetchDefined, served,
                   result, unhandled, ops, nCalls, nClears, events, nListens,
                   nRemoves, listened, overlap>>

\* A scheduler of the base graph g0 and an embedding program that
\* registers listeners of begin and then dispatches begin itself.
InitD ==
    /\ Construct
    /\ overlap = FALSE
    /\ graph = <<"g0", 0>>

NextD ==
    \/ \E l \in MutatingListeners \cup {"rec"} : AddEventListener("begin", l)
    \/ DispatchEvent("begin")
    \/ ListenerCall
    \/ DispatchReturn

SpecD == InitD /\ [][NextD]_vars

\* C38 as stated: when dispatchEvent returns, every listener that was
\* registered under the name when the dispatch began has been invoked
\* exactly once, whatever the listeners added or removed meanwhile.
C38_Original ==
    (dispatching # Null /\ dispatching.returned) =>
        \A l \in Range(dispatching.registered) :
            Count(dispatching.invoked, l) = Count(dispatching.registered, l)

\* When no listener of the name changes the entry, the listeners invoked
\* are those registered at the beginning, in order.
QuietDispatch ==
    (/\ dispatching # Null /\ dispatching.returned
     /\ Range(dispatching.registered) \cap MutatingListeners = {}) =>
        dispatching.invoked = dispatching.registered

(***************************************************************************)
(* C39.  An asynchronous listener of load.                                 *)
(***************************************************************************)
\* A scheduler of the base graph g0 whose host has everything or has no
\* fetch, and an embedding program that registers the asynchronous
\* listener of load and makes its calls one after the other.
InitA ==
    /\ Construct
    /\ overlap = FALSE
    /\ graph = <<"g0", 0>>
    /\ fetchDefined => served = Everything

NextA ==
    \/ Next
    \/ \E l \in AsyncListeners : AddEventListener("load", l)
    \/ \E x \in DOMAIN frames : Step(StoreAnswered(x))

SpecA == InitA /\ [][NextA]_vars

\* The load(url) calls of this step whose load event was given to the
\* asynchronous listener while the cache had nothing for the URL.
Overridden ==
    {f \in Loads :
        /\ cache[frames[f].loader][frames[f].url] = Null
        /\ "asv" \in Range(DispatchedFor(f)[1].heard)}

\* A load the asynchronous listener was called for invokes no fetch and
\* dispatches nothing but load.
NoDefaultFetch ==
    \A f \in Overridden :
        /\ fetchCount' = fetchCount
        /\ Len(DispatchedFor(f)) = 1

\* The load(url) calls that have settled and whose load event was given
\* to the asynchronous listener.
SettledOverridden ==
    {f \in DOMAIN frames :
        /\ frames[f].kind = "load"
        /\ frames[f].st \in {"ok", "err"}
        /\ \E i \in 1..Len(log[frames[f].chain]) :
              LET e == log[frames[f].chain][i]
              IN e.name = "load" /\ e.fr = f /\ "asv" \in Range(e.heard)}

\* What such a call returned is the item of the listener.
ReturnsItem ==
    \A f \in SettledOverridden :
        /\ frames[f].st = "ok"
        /\ frames[f].ret = Given(frames[f].loader, frames[f].url)

\* C39 as stated: with an asynchronous load listener that awaits a store
\* lookup and then calls setValue(item), the default fetch is not called
\* for that load and load() returns the item of the listener.
C39_Original == []ReturnsItem /\ [][NoDefaultFetch]_vars

\* What the loader does: a load that finds nothing cached goes to fetch,
\* or fails for lack of one, whether or not the asynchronous listener was
\* called, and the item arrives in the cache only when the store answers.
ListenerTooLate ==
    \A f \in Overridden :
        IF fetchDefined
        THEN /\ fetchCount'[frames[f].url] = fetchCount[frames[f].url] + 1
             /\ frames'[f].pc = "fetching"
        ELSE /\ Names(DispatchedFor(f)) = <<"load", "error">>
             /\ frames'[f].st = "err"

(***************************************************************************)
(* C40.  Every url() call quiesces.                                        *)
(***************************************************************************)
\* Call c has quiesced: its promise has settled and no activation that it
\* started, awaited or not, is left.
Quiet(c) == c \in DOMAIN result /\ \A f \in DOMAIN frames : ~IsPrefix(c, f)

\* Every beginconnector of chain ch is followed by the endconnector of
\* its connector or by an error event of the same write.
Answered(ch) ==
    \A k \in 1..Len(log[ch]) :
        log[ch][k].name = "beginconnector" =>
            \E m \in (k + 1)..Len(log[ch]) :
                /\ log[ch][m].fr = log[ch][k].fr
                /\ \/ /\ log[ch][m].name = "endconnector"
                      /\ log[ch][m].connector = log[ch][k].connector
                   \/ log[ch][m].name = "error"

\* Call c has dispatched end, and in its chain and the chains of its
\* writes every beginedge has its endedge and every beginconnector its
\* endconnector or an error.
Complete(c) ==
    /\ At(c, "end", c) # {}
    /\ \A ch \in {c} \cup WritesOf(c) : Open(ch) = {} /\ Answered(ch)

\* C40: the connector graphs being acyclic, the handlers terminating and
\* the host settling every load and timer, every url() call eventually
\* quiesces, and when it has, end was dispatched, every beginedge has its
\* endedge and every beginconnector has its endconnector or an error.
C40_Quiesces ==
    /\ [](\A c \in Calls : Quiet(c) => Complete(c))
    /\ \A c \in CallIds : (c \in DOMAIN log) ~> Quiet(c)

\* Two calls have quiesced: a write of one delivered to a connector and
\* was then cut short by a failure of its fan-out, and a write of the
\* other delivered to more than one connector of its edge.
C40_Witness ==
    \E c, d \in Calls :
        /\ Quiet(c) /\ Quiet(d)
        /\ \E s \in WritesOf(c) : Begun(s) # <<>> /\ s \in FailedWrites
        /\ \E s \in WritesOf(d) :
              /\ Len(Begun(s)) > 1
              /\ s \notin FailedWrites
====
